---- MODULE Spec2Model ----
(***************************************************************************)
(* A model of a3lib.py: the PBO archive codec (PboFile, PboInfo,           *)
(* PboExtFile), the three signature hashes and the RSA padding, sign and   *)
(* verify arithmetic.                                                      *)
(*                                                                         *)
(* Byte strings are sequences of integers 0..255.  A Python file object is *)
(* a record [data, pos, closed, mtime].  An OrderedDict is a sequence of          *)
(* <<key, value>> pairs in insertion order.  A Python long is a sequence   *)
(* of base-256 digits, most significant first, without leading zeros.      *)
(* hashlib.sha1 is computed bit for bit (FIPS 180-1), on 32-bit words      *)
(* held as two 16-bit halves so that no intermediate exceeds 2^31.         *)
(***************************************************************************)
EXTENDS Integers, Sequences, FiniteSets, TLC

(***************************************************************************)
(* Bounds of the model.                                                    *)
(***************************************************************************)
MaxEntries == 2
MaxSize == 2
MaxModulusLen == 66
MaxViews == 2
MaxList == 2
MaxPast == 1

(***************************************************************************)
(* Byte-string helpers.                                                    *)
(***************************************************************************)
NUL == 0
Zeros(n) == [i \in 1..n |-> 0]
Min(a, b) == IF a < b THEN a ELSE b
Max(a, b) == IF a < b THEN b ELSE a

\* bytes.lower(): ASCII upper-case letters map to lower case
lower(s) == [i \in 1..Len(s) |-> IF s[i] >= 65 /\ s[i] <= 90 THEN s[i] + 32 ELSE s[i]]

\* bytes.endswith(suffix)
endswith(s, suf) == Len(suf) <= Len(s) /\ SubSeq(s, Len(s) - Len(suf) + 1, Len(s)) = suf

\* Python's ordering of bytes objects: lexicographic, a proper prefix first
BytesLess(a, b) ==
    \E i \in 1..(Min(Len(a), Len(b)) + 1) :
        /\ \A j \in 1..(i - 1) : a[j] = b[j]
        /\ IF i > Len(a) THEN i <= Len(b)
           ELSE i <= Len(b) /\ a[i] < b[i]

\* struct.pack('<I', n) and struct.unpack('<I', b)
PackU32(n) == <<n % 256, (n \div 256) % 256, (n \div 65536) % 256, (n \div 16777216) % 256>>
UnpackU32(b, i) == b[i] + 256 * b[i + 1] + 65536 * b[i + 2] + 16777216 * b[i + 3]

(***************************************************************************)
(* hashlib.sha1                                                            *)
(***************************************************************************)
Bit(n, i) == (n \div (2^i)) % 2
\* a bitwise function of three bits, lifted to four bits at a time
Nib(f) == [a \in 0..15 |-> [b \in 0..15 |-> [c \in 0..15 |->
      f[Bit(a, 0)][Bit(b, 0)][Bit(c, 0)] + 2 * f[Bit(a, 1)][Bit(b, 1)][Bit(c, 1)]
    + 4 * f[Bit(a, 2)][Bit(b, 2)][Bit(c, 2)] + 8 * f[Bit(a, 3)][Bit(b, 3)][Bit(c, 3)]]]]
ChBit == [b \in 0..1 |-> [c \in 0..1 |-> [d \in 0..1 |-> IF b = 1 THEN c ELSE d]]]
ParBit == [b \in 0..1 |-> [c \in 0..1 |-> [d \in 0..1 |-> (b + c + d) % 2]]]
MajBit == [b \in 0..1 |-> [c \in 0..1 |-> [d \in 0..1 |-> IF b + c + d >= 2 THEN 1 ELSE 0]]]
Ch4 == Nib(ChBit)
Par4 == Nib(ParBit)
Maj4 == Nib(MajBit)
Op16(T, x, y, z) ==
    4096 * T[x \div 4096][y \div 4096][z \div 4096]
  + 256 * T[(x \div 256) % 16][(y \div 256) % 16][(z \div 256) % 16]
  + 16 * T[(x \div 16) % 16][(y \div 16) % 16][(z \div 16) % 16]
  + T[x % 16][y % 16][z % 16]
Op32(T, b, c, d) == <<Op16(T, b[1], c[1], d[1]), Op16(T, b[2], c[2], d[2])>>
Add32(x, y) == LET lo == x[2] + y[2]
               IN <<(x[1] + y[1] + (lo \div 65536)) % 65536, lo % 65536>>
Rotl(w, r) == <<((w[1] * (2^r)) % 65536) + (w[2] \div (2^(16 - r))),
                ((w[2] * (2^r)) % 65536) + (w[1] \div (2^(16 - r)))>>
Rotl30(w) == Rotl(<<w[2], w[1]>>, 14)
Zero32 == <<0, 0>>
Sha1Pad(m) ==
    LET l == Len(m)
        bits == 8 * l
    IN m \o <<128>> \o Zeros((119 - (l % 64)) % 64)
         \o <<0, 0, 0, 0, (bits \div 16777216) % 256, (bits \div 65536) % 256,
              (bits \div 256) % 256, bits % 256>>
WordAt(p, i) == <<256 * p[i] + p[i + 1], 256 * p[i + 2] + p[i + 3]>>
\* the message schedule, words 17..80; the span lo..hi is halved rather than
\* walked so that the evaluation stays shallow
RECURSIVE Sha1Sched(_, _, _)
Sha1Sched(w, lo, hi) ==
    IF lo = hi
    THEN Append(w, Rotl(Op32(Par4, Op32(Par4, w[lo - 3], w[lo - 8], w[lo - 14]),
                             w[lo - 16], Zero32), 1))
    ELSE LET mid == (lo + hi) \div 2
             half == Sha1Sched(w, lo, mid)
         IN IF Len(half) >= 0 THEN Sha1Sched(half, mid + 1, hi) ELSE half
Sha1K(t) == IF t <= 20 THEN <<23170, 31129>> ELSE IF t <= 40 THEN <<28377, 60321>>
            ELSE IF t <= 60 THEN <<36635, 48348>> ELSE <<51810, 49622>>
Sha1F(t, b, c, d) ==
    IF t <= 20 THEN Op32(Ch4, b, c, d) ELSE IF t <= 40 THEN Op32(Par4, b, c, d)
    ELSE IF t <= 60 THEN Op32(Maj4, b, c, d) ELSE Op32(Par4, b, c, d)
\* rounds lo..hi of the compression function
RECURSIVE Sha1Rounds(_, _, _, _)
Sha1Rounds(s, w, lo, hi) ==
    IF lo = hi
    THEN <<Add32(Add32(Add32(Add32(Rotl(s[1], 5), Sha1F(lo, s[2], s[3], s[4])),
                             s[5]), Sha1K(lo)), w[lo]),
           s[1], Rotl30(s[2]), s[3], s[4]>>
    ELSE LET mid == (lo + hi) \div 2
             half == Sha1Rounds(s, w, lo, mid)
         IN IF half[1][1] >= 0 THEN Sha1Rounds(half, w, mid + 1, hi) ELSE half
Sha1Block(h, p, off) ==
    LET w == Sha1Sched([i \in 1..16 |-> WordAt(p, off + 4 * (i - 1) + 1)], 17, 80)
        s == Sha1Rounds(h, w, 1, 80)
    IN [i \in 1..5 |-> Add32(h[i], s[i])]
RECURSIVE Sha1Blocks(_, _, _)
Sha1Blocks(h, p, off) ==
    IF off >= Len(p) THEN h
    ELSE LET n == Sha1Block(h, p, off)
         IN IF n[1][1] >= 0 THEN Sha1Blocks(n, p, off + 64) ELSE n
Sha1H0 == <<<<26437, 8961>>, <<61389, 43913>>, <<39098, 56574>>, <<4146, 21622>>,
            <<50130, 57840>>>>
\* hashlib.sha1(m).digest(): the 20 digest bytes
sha1(m) ==
    LET h == Sha1Blocks(Sha1H0, Sha1Pad(m), 0)
    IN [i \in 1..20 |-> LET half == h[((i - 1) \div 4) + 1][(((i - 1) % 4) \div 2) + 1]
                        IN IF i % 2 = 1 THEN half \div 256 ELSE half % 256]

(***************************************************************************)
(* Python file objects: [data, pos, closed, mtime].                        *)
(***************************************************************************)
CHUNK_SIZE == 4096

\* file.read(n): the bytes from the position up to n bytes or the end of file
file_read(f, n) ==
    LET d == SubSeq(f.data, f.pos + 1, Min(f.pos + n, Len(f.data)))
    IN [data |-> d, f |-> [f EXCEPT !.pos = f.pos + Len(d)]]

unpack_asciiz(f) ==
    LET nuls == {i \in (f.pos + 1)..Len(f.data) : f.data[i] = NUL}
        z == CHOOSE i \in nuls : \A j \in nuls : i <= j
    IN IF nuls = {}
       THEN [st |-> "hang", s |-> <<>>, f |-> [f EXCEPT !.pos = Len(f.data)]]
       ELSE [st |-> "ok", s |-> SubSeq(f.data, f.pos + 1, z - 1), f |-> [f EXCEPT !.pos = z]]

(***************************************************************************)
(* OrderedDict as a sequence of <<key, value>> pairs.                      *)
(***************************************************************************)
DictHas(d, k) == \E i \in 1..Len(d) : d[i][1] = k
DictGet(d, k) == d[CHOOSE i \in 1..Len(d) : d[i][1] = k][2]
\* d[k] = v: an existing key keeps its place and takes the new value
DictSet(d, k, v) ==
    IF DictHas(d, k) THEN [i \in 1..Len(d) |-> IF d[i][1] = k THEN <<k, v>> ELSE d[i]]
    ELSE Append(d, <<k, v>>)
\* d.pop(k), for a key that is present
DictPop(d, k) ==
    LET i == CHOOSE j \in 1..Len(d) : d[j][1] = k
    IN SubSeq(d, 1, i - 1) \o SubSeq(d, i + 1, Len(d))
\* sorted(seq, key=...): the stable sort of seq by the byte-string keys, by the
\* rank of each element
SortedBy(seq, keys) ==
    LET rank(i) == Cardinality({j \in 1..Len(seq) : BytesLess(keys[j], keys[i])})
                   + Cardinality({j \in 1..(i - 1) : keys[j] = keys[i]}) + 1
    IN [r \in 1..Len(seq) |-> seq[CHOOSE i \in 1..Len(seq) : rank(i) = r]]

(***************************************************************************)
(* PboInfo                                                                 *)
(***************************************************************************)
NoFp == 0
PboInfo(filename, packing_method, original_size, reserved, timestamp, data_size, fp) ==
    [filename |-> filename, packing_method |-> packing_method,
     original_size |-> original_size, reserved |-> reserved, timestamp |-> timestamp,
     data_size |-> data_size, fp |-> fp, data_offset |-> -1]

\* os.fstat(fp.fileno()) raises ValueError on a closed file
get_data_size(info, hs) ==
    IF info.fp = NoFp THEN [st |-> "ok", v |-> info.data_size]
    ELSE IF hs[info.fp].closed THEN [st |-> "error", v |-> 0]
    ELSE [st |-> "ok", v |-> Len(hs[info.fp].data)]

get_timestamp(info, hs) ==
    IF info.fp = NoFp THEN info.timestamp ELSE hs[info.fp].mtime

check_name_hash(info, hs) ==
    LET sz == get_data_size(info, hs)
    IN [st |-> sz.st, v |-> sz.st = "ok" /\ sz.v > 0]

V2Suffixes == { <<46, 112, 97, 97>>, <<46, 106, 112, 103>>, <<46, 112, 51, 100>>,
                <<46, 116, 103, 97>>, <<46, 114, 118, 109, 97, 116>>, <<46, 108, 105, 112>>,
                <<46, 111, 103, 103>>, <<46, 119, 115, 115>>, <<46, 112, 110, 103>>,
                <<46, 114, 116, 109>>, <<46, 112, 97, 99>>, <<46, 102, 120, 121>>,
                <<46, 119, 114, 112>> }
V3Suffixes == { <<46, 115, 113, 102>>, <<46, 105, 110, 99>>, <<46, 98, 105, 107, 98>>,
                <<46, 101, 120, 116>>, <<46, 102, 115, 109>>, <<46, 115, 113, 109>>,
                <<46, 104, 112, 112>>, <<46, 99, 102, 103>>, <<46, 115, 113, 115>>,
                <<46, 104>> }

\* a check that takes every version other than 2 for version 3
CheckFileHashAsV3(info, version, hs) ==
    LET sz == get_data_size(info, hs)
    IN [st |-> sz.st,
        v |-> sz.st = "ok" /\ sz.v > 0
              /\ IF version = 2
                 THEN ~ \E suf \in V2Suffixes : endswith(lower(info.filename), suf)
                 ELSE \E suf \in V3Suffixes : endswith(lower(info.filename), suf)]
check_file_hash(info, version, hs) ==
    IF version = 2
    THEN LET sz == get_data_size(info, hs)
         IN [st |-> sz.st,
             v |-> sz.st = "ok" /\ sz.v > 0
                   /\ ~ \E suf \in V2Suffixes : endswith(lower(info.filename), suf)]
    ELSE IF version = 3
    THEN LET sz == get_data_size(info, hs)
         IN [st |-> sz.st,
             v |-> sz.st = "ok" /\ sz.v > 0
                   /\ \E suf \in V3Suffixes : endswith(lower(info.filename), suf)]
    ELSE [st |-> "error", v |-> FALSE]

(***************************************************************************)
(* Python long <-> bytes and hex strings.  A hex string is the sequence of *)
(* its digit values 0..15.                                                 *)
(***************************************************************************)
\* drop the leading zero digits: the canonical form of a long
Normalize(b) ==
    LET nz == {i \in 1..Len(b) : b[i] # 0}
    IN IF nz = {} THEN <<>> ELSE SubSeq(b, CHOOSE i \in nz : \A j \in nz : i <= j, Len(b))
Reverse(b) == [i \in 1..Len(b) |-> b[Len(b) + 1 - i]]
hexdigest(d) == [i \in 1..(2 * Len(d)) |-> IF i % 2 = 1 THEN d[(i + 1) \div 2] \div 16
                                           ELSE d[i \div 2] % 16]
\* long(hexstring, 16)
long16(h) ==
    LET e == IF Len(h) % 2 = 1 THEN <<0>> \o h ELSE h
    IN Normalize([i \in 1..(Len(e) \div 2) |-> 16 * e[2 * i - 1] + e[2 * i]])
\* n.to_bytes(length, endian); OverflowError when n needs more than length bytes
int_to_bytes(n, length, endian) ==
    IF Len(n) > length THEN [st |-> "error", v |-> <<>>]
    ELSE LET be == Zeros(length - Len(n)) \o n
         IN [st |-> "ok", v |-> IF endian = "big" THEN be ELSE Reverse(be)]
\* int.from_bytes(b, endian)
bytes_to_int(b, endian) == Normalize(IF endian = "big" THEN b ELSE Reverse(b))

(***************************************************************************)
(* PboExtFile: a view [pos, data_offset, data_size] of the shared handle   *)
(***************************************************************************)
PboExtFile(info) ==
    [pos |-> info.data_offset, data_offset |-> info.data_offset, data_size |-> info.data_size]

\* a read that takes n bytes wherever the member ends
ReadPastMember(view, f, n) ==
    LET sought == [f EXCEPT !.pos = view.pos]
        full == view.data_offset + view.data_size - view.pos
        read_size == IF n > -1 THEN n ELSE full
        r == IF read_size > 0 THEN file_read(sought, read_size)
             ELSE [data |-> <<>>, f |-> sought]
    IN [data |-> r.data, f |-> r.f, view |-> [view EXCEPT !.pos = r.f.pos]]
\* PboExtFile.read(n), on an open shared handle f
PboExtFile_read(view, f, n) ==
    LET sought == [f EXCEPT !.pos = view.pos]
        full == view.data_offset + view.data_size - view.pos
        read_size == IF n > -1 THEN Min(n, full) ELSE full
        r == IF read_size > 0 THEN file_read(sought, read_size)
             ELSE [data |-> <<>>, f |-> sought]
    IN [data |-> r.data, f |-> r.f, view |-> [view EXCEPT !.pos = r.f.pos]]

\* where seek(offset, whence) goes in the shared handle; whence is 0, 1 or 2
SeekTarget(view, offset, whence) ==
    IF whence = 0 THEN offset + view.data_offset
    ELSE IF whence = 1 THEN offset + view.pos
    ELSE offset + view.data_offset + view.data_size
\* a seek that goes wherever it is sent
SeekUnchecked(view, f, offset, whence) ==
    LET target == SeekTarget(view, offset, whence)
    IN [st |-> "ok", f |-> [f EXCEPT !.pos = target], view |-> [view EXCEPT !.pos = target]]
\* PboExtFile.seek(offset, whence), on an open shared handle f
PboExtFile_seek(view, f, offset, whence) ==
    LET target == SeekTarget(view, offset, whence)
    IN IF whence \notin {0, 1, 2} THEN [st |-> "error", f |-> f, view |-> view]
       ELSE IF target < view.data_offset THEN [st |-> "error", f |-> f, view |-> view]
       ELSE [st |-> "ok", f |-> [f EXCEPT !.pos = target],
             view |-> [view EXCEPT !.pos = target]]

\* the statements of read and seek one by one, for callers that share the
\* handle and run at the same time.  A read that leaves the handle where it is:
NoReposition(view, f) == f
\* self.fp.seek(self.pos)
ReadReposition(view, f) == [f EXCEPT !.pos = view.pos]
\* read_size = ...; data = self.fp.read(read_size) when read_size > 0; used
\* tells whether the handle has been read from
ReadHandle(view, f, n) ==
    LET full == view.data_offset + view.data_size - view.pos
        read_size == IF n > -1 THEN Min(n, full) ELSE full
    IN IF read_size > 0 THEN file_read(f, read_size) @@ [used |-> TRUE]
       ELSE [data |-> <<>>, f |-> f, used |-> FALSE]
\* self.pos = self.fp.tell()
Retell(view, f) == [view EXCEPT !.pos = f.pos]
\* the checks of seek and self.fp.seek(offset, 0)
SeekHandle(view, f, offset, whence) ==
    LET target == SeekTarget(view, offset, whence)
    IN IF whence \notin {0, 1, 2} \/ target < view.data_offset THEN [st |-> "error", f |-> f]
       ELSE [st |-> "ok", f |-> [f EXCEPT !.pos = target]]

PboExtFile_tell(view) == view.pos - view.data_offset

(***************************************************************************)
(* PboFile: [header, header_extension, filedict, fp]                       *)
(***************************************************************************)
DefaultHeader == [name |-> <<NUL>>, f |-> <<1449489011, 0, 0, 0, 0>>]
NewPboFile == [header |-> DefaultHeader, header_extension |-> <<>>, filedict |-> <<>>,
               fp |-> NoFp]
infolist(p) == [i \in 1..Len(p.filedict) |-> p.filedict[i][2]]
namelist(p) == [i \in 1..Len(p.filedict) |-> p.filedict[i][1]]
Failed(st, f) == [st |-> st, header |-> DefaultHeader, header_extension |-> <<>>,
                  filedict |-> <<>>, f |-> f]

RECURSIVE ReadExtension(_, _)
ReadExtension(f, ext) ==
    LET k == unpack_asciiz(f)
    IN IF k.st # "ok" THEN [st |-> k.st, ext |-> ext, f |-> k.f]
       ELSE IF Len(k.s) = 0 THEN [st |-> "ok", ext |-> ext, f |-> k.f]
       ELSE LET v == unpack_asciiz(k.f)
            IN IF v.st # "ok" THEN [st |-> v.st, ext |-> ext, f |-> v.f]
               ELSE ReadExtension(v.f, DictSet(ext, k.s, v.s))

RECURSIVE ReadInfos(_, _)
ReadInfos(f, fd) ==
    LET k == unpack_asciiz(f)
    IN IF k.st # "ok" THEN [st |-> k.st, fd |-> fd, f |-> k.f]
       ELSE IF Len(k.s) = 0 THEN [st |-> "ok", fd |-> fd, f |-> k.f]
       ELSE LET r == file_read(k.f, 20)
            IN IF Len(r.data) # 20 THEN [st |-> "error", fd |-> fd, f |-> r.f]
               ELSE ReadInfos(r.f, DictSet(fd, k.s,
                        PboInfo(k.s, UnpackU32(r.data, 1), UnpackU32(r.data, 5),
                                UnpackU32(r.data, 9), UnpackU32(r.data, 13),
                                UnpackU32(r.data, 17), NoFp)))

RECURSIVE SumSizes(_, _)
SumSizes(fd, n) == IF n = 0 THEN 0 ELSE SumSizes(fd, n - 1) + fd[n][2].data_size

\* the loop that gives each entry its data_offset
AssignOffsets(fd, data_offset) ==
    [i \in 1..Len(fd) |->
        <<fd[i][1], [fd[i][2] EXCEPT !.data_offset = data_offset + SumSizes(fd, i - 1)]>>]

\* PboFile.from_file on an open file object
from_file(f0) ==
    LET n == unpack_asciiz(f0)
        h == file_read(n.f, 20)
        x == ReadExtension(h.f, <<>>)
        e == ReadInfos(x.f, <<>>)
        empty == file_read(e.f, 20)
    IN IF n.st # "ok" THEN Failed(n.st, n.f)
       ELSE IF Len(h.data) # 20 THEN Failed("error", h.f)
       ELSE IF x.st # "ok" THEN Failed(x.st, x.f)
       ELSE IF e.st # "ok" THEN Failed(e.st, e.f)
       ELSE [st |-> "ok",
             header |-> [name |-> n.s,
                         f |-> <<UnpackU32(h.data, 1), UnpackU32(h.data, 5),
                                 UnpackU32(h.data, 9), UnpackU32(h.data, 13),
                                 UnpackU32(h.data, 17)>>],
             header_extension |-> x.ext,
             filedict |-> AssignOffsets(e.fd, empty.f.pos),
             f |-> empty.f]

(***************************************************************************)
(* PboFile._export                                                         *)
(***************************************************************************)
\* struct.pack('s', b): one byte, NUL when b is empty
PackS(b) == IF Len(b) = 0 THEN <<NUL>> ELSE <<b[1]>>

RECURSIVE Concat(_, _)
Concat(seqs, n) == IF n = 0 THEN <<>> ELSE Concat(seqs, n - 1) \o seqs[n]

\* sorted(self.filedict.items()): by key, the keys of a dict being distinct
SortedItems(p) == SortedBy(p.filedict, namelist(p))

ExtensionBytes(p) ==
    Concat([i \in 1..Len(p.header_extension) |->
               p.header_extension[i][1] \o <<NUL>> \o p.header_extension[i][2] \o <<NUL>>],
           Len(p.header_extension))

\* an index record that leaves the timestamp field zero
IndexRecordNoTimestamp(v, hs) ==
    v.filename \o <<NUL>> \o PackU32(v.packing_method) \o PackU32(v.original_size)
      \o PackU32(v.reserved) \o PackU32(0) \o PackU32(get_data_size(v, hs).v)
IndexRecord(v, hs) ==
    v.filename \o <<NUL>> \o PackU32(v.packing_method) \o PackU32(v.original_size)
      \o PackU32(v.reserved) \o PackU32(get_timestamp(v, hs))
      \o PackU32(get_data_size(v, hs).v)

\* struct.pack of format I takes 0 .. 2^32 - 1 and raises struct.error for
\* any other number; the numbers of the model lie below 2^31
PacksU32(n) == n >= 0
\* the header block that _export hashes and writes first
ExportHeader(p, hs) ==
    LET es == SortedItems(p)
    IN [st |-> IF \E i \in 1..Len(es) :
                     \/ get_data_size(es[i][2], hs).st # "ok"
                     \/ ~ PacksU32(es[i][2].packing_method)
                     \/ ~ PacksU32(es[i][2].original_size)
                     \/ ~ PacksU32(es[i][2].reserved)
                     \/ ~ PacksU32(get_timestamp(es[i][2], hs))
                     \/ ~ PacksU32(get_data_size(es[i][2], hs).v)
               THEN "error" ELSE "ok",
        v |-> PackS(p.header.name) \o PackU32(p.header.f[1]) \o PackU32(p.header.f[2])
                \o PackU32(p.header.f[3]) \o PackU32(p.header.f[4])
                \o PackU32(p.header.f[5])
                \o ExtensionBytes(p) \o <<NUL>>
                \o Concat([i \in 1..Len(es) |-> IndexRecord(es[i][2], hs)], Len(es))
                \o Zeros(21)]

\* data = f.read(CHUNK_SIZE) until it comes back empty, on a member view
RECURSIVE ReadView(_, _, _)
ReadView(view, f, acc) ==
    LET r == PboExtFile_read(view, f, CHUNK_SIZE)
    IN IF Len(r.data) = 0 THEN [data |-> acc, f |-> r.f]
       ELSE ReadView(r.view, r.f, acc \o r.data)

\* the same loop on an external file object
RECURSIVE ReadRaw(_, _)
ReadRaw(f, acc) ==
    LET r == file_read(f, CHUNK_SIZE)
    IN IF Len(r.data) = 0 THEN [data |-> acc, f |-> r.f]
       ELSE ReadRaw(r.f, acc \o r.data)

\* the payload loop of _export; 'with self.open(v) as f' closes an external
\* file object on exit and leaves a member view's shared handle open
RECURSIVE StreamPayloads(_, _, _, _, _)
StreamPayloads(es, i, p, hs, acc) ==
    IF i > Len(es) THEN [st |-> "ok", data |-> acc, hs |-> hs]
    ELSE LET info == es[i][2]
         IN IF info.fp = NoFp
            THEN IF p.fp = NoFp \/ hs[p.fp].closed
                 THEN [st |-> "error", data |-> acc, hs |-> hs]
                 ELSE LET r == ReadView(PboExtFile(info), hs[p.fp], <<>>)
                      IN StreamPayloads(es, i + 1, p, [hs EXCEPT ![p.fp] = r.f], acc \o r.data)
            ELSE IF hs[info.fp].closed
                 THEN [st |-> "error", data |-> acc, hs |-> hs]
                 ELSE LET r == ReadRaw(hs[info.fp], <<>>)
                      IN StreamPayloads(es, i + 1, p,
                                        [hs EXCEPT ![info.fp] = [r.f EXCEPT !.closed = TRUE]],
                                        acc \o r.data)

\* PboFile._export: the bytes written to the file, and the handles afterwards
export(p, hs) ==
    LET hdr == ExportHeader(p, hs)
        pl == StreamPayloads(SortedItems(p), 1, p, hs, <<>>)
        body == hdr.v \o pl.data
        dg == int_to_bytes(long16(hexdigest(sha1(body))), 20, "big")
    IN IF hdr.st # "ok" THEN [st |-> "error", out |-> <<>>, hs |-> hs]
       ELSE IF pl.st # "ok" THEN [st |-> "error", out |-> body, hs |-> pl.hs]
       ELSE [st |-> "ok", out |-> body \o <<NUL>> \o dg.v, hs |-> pl.hs]

(***************************************************************************)
(* The signature hashes                                                    *)
(***************************************************************************)
\* a sort key that keeps the case of the name
RawName(info) == info.filename
LowerName(info) == lower(info.filename)

\* PboFile._namehash: the bytes fed to the hash object
namehash(p, hs) ==
    LET infos == SortedBy(infolist(p), [i \in 1..Len(p.filedict) |-> LowerName(infolist(p)[i])])
    IN [st |-> IF \E i \in 1..Len(infos) : check_name_hash(infos[i], hs).st # "ok"
               THEN "error" ELSE "ok",
        fed |-> Concat([i \in 1..Len(infos) |->
                          IF check_name_hash(infos[i], hs).v THEN lower(infos[i].filename)
                          ELSE <<>>], Len(infos))]

\* the read loop of _filehash on a member view: rlen is taken anew from
\* tell() after every read, so a read that brings nothing with bytes still
\* owed repeats for ever
RECURSIVE HashView(_, _, _, _)
HashView(view, f, rlen, acc) ==
    IF rlen <= 0 THEN [st |-> "ok", fed |-> acc, f |-> f]
    ELSE LET r == PboExtFile_read(view, f, Min(CHUNK_SIZE, rlen))
             left == view.data_size - PboExtFile_tell(r.view)
         IN IF Len(r.data) = 0 /\ left > 0 THEN [st |-> "hang", fed |-> acc, f |-> r.f]
            ELSE HashView(r.view, r.f, left, acc \o r.data)

\* the same loop on an external file object, whose tell() is its own position
RECURSIVE HashRaw(_, _, _, _)
HashRaw(f, data_size, rlen, acc) ==
    IF rlen <= 0 THEN [st |-> "ok", fed |-> acc, f |-> f]
    ELSE LET r == file_read(f, Min(CHUNK_SIZE, rlen))
             left == data_size - r.f.pos
         IN IF Len(r.data) = 0 /\ left > 0 THEN [st |-> "hang", fed |-> acc, f |-> r.f]
            ELSE HashRaw(r.f, data_size, left, acc \o r.data)

Nothing == <<110, 111, 116, 104, 105, 110, 103>>
Gnihton == <<103, 110, 105, 104, 116, 111, 110>>

RECURSIVE FileHashLoop(_, _, _, _, _, _, _)
FileHashLoop(infos, i, p, hs, version, acc, nothing) ==
    IF i > Len(infos) THEN [st |-> "ok", fed |-> acc, nothing |-> nothing, hs |-> hs]
    ELSE LET info == infos[i]
             c == check_file_hash(info, version, hs)
         IN IF c.st # "ok" THEN [st |-> "error", fed |-> acc, nothing |-> nothing, hs |-> hs]
            ELSE IF ~ c.v THEN FileHashLoop(infos, i + 1, p, hs, version, acc, nothing)
            ELSE IF info.fp = NoFp
            THEN IF info.data_size > 0 /\ (p.fp = NoFp \/ hs[p.fp].closed)
                 THEN [st |-> "error", fed |-> acc, nothing |-> FALSE, hs |-> hs]
                 ELSE IF info.data_size <= 0
                 THEN FileHashLoop(infos, i + 1, p, hs, version, acc, FALSE)
                 ELSE LET r == HashView(PboExtFile(info), hs[p.fp], info.data_size, <<>>)
                      IN IF r.st # "ok"
                         THEN [st |-> r.st, fed |-> acc \o r.fed, nothing |-> FALSE,
                               hs |-> [hs EXCEPT ![p.fp] = r.f]]
                         ELSE FileHashLoop(infos, i + 1, p, [hs EXCEPT ![p.fp] = r.f],
                                           version, acc \o r.fed, FALSE)
            ELSE LET r == HashRaw(hs[info.fp], info.data_size, info.data_size, <<>>)
                 IN IF r.st # "ok"
                    THEN [st |-> r.st, fed |-> acc \o r.fed, nothing |-> FALSE,
                          hs |-> [hs EXCEPT ![info.fp] = r.f]]
                    ELSE FileHashLoop(infos, i + 1, p,
                                      [hs EXCEPT ![info.fp] = [r.f EXCEPT !.closed = TRUE]],
                                      version, acc \o r.fed, FALSE)

\* PboFile._filehash: the bytes fed to the hash object, and the handles afterwards
filehash(p, hs, version) ==
    LET l == FileHashLoop(infolist(p), 1, p, hs, version, <<>>, TRUE)
    IN IF l.st # "ok" THEN [st |-> l.st, fed |-> l.fed, hs |-> l.hs]
       ELSE IF ~ l.nothing THEN [st |-> "ok", fed |-> l.fed, hs |-> l.hs]
       ELSE IF version = 2 THEN [st |-> "ok", fed |-> Nothing, hs |-> l.hs]
       ELSE IF version = 3 THEN [st |-> "ok", fed |-> Gnihton, hs |-> l.hs]
       ELSE [st |-> "error", fed |-> <<>>, hs |-> l.hs]

\* the read loop of hash1
RECURSIVE Hash1Loop(_, _, _, _)
Hash1Loop(f, end, rlen, acc) ==
    IF rlen <= 0 THEN [fed |-> acc, f |-> f]
    ELSE LET r == file_read(f, Min(CHUNK_SIZE, rlen))
         IN Hash1Loop(r.f, end, end - r.f.pos, acc \o r.data)

\* a hash1 that stops 20 bytes before the end and stays where it stopped
Hash1Through20(f) ==
    LET end == Len(f.data) - 20
        l == Hash1Loop([f EXCEPT !.pos = 0], end, end, <<>>)
    IN IF f.closed \/ end < 0 THEN [st |-> "error", fed |-> <<>>, f |-> f]
       ELSE [st |-> "ok", fed |-> l.fed, f |-> l.f]
\* PboFile.hash1 on a file object: the bytes fed, and the file object afterwards
hash1(f) ==
    LET oldpos == f.pos
        end == Len(f.data) - 21
        l == Hash1Loop([f EXCEPT !.pos = 0], end, end, <<>>)
    IN IF f.closed \/ end < 0 THEN [st |-> "error", fed |-> <<>>, f |-> f]
       ELSE [st |-> "ok", fed |-> l.fed, f |-> [l.f EXCEPT !.pos = oldpos]]

Prefix == <<112, 114, 101, 102, 105, 120>>
Backslash == 92
\* a hash that leaves the prefix out
NoPrefixBytes(p) == <<>>
PrefixBytes(p) ==
    IF DictHas(p.header_extension, Prefix)
    THEN DictGet(p.header_extension, Prefix) \o <<Backslash>> ELSE <<>>

NoDigest == <<>>
HashFailed(st, hs) == [st |-> st, hash1 |-> NoDigest, hash2 |-> NoDigest,
                       hash3 |-> NoDigest, hs |-> hs]
\* the end of hash: the digests of the three parts and of their combinations
HashParts(h1, nh, fh, prefix, hs, hs1) ==
    IF h1.st # "ok" THEN HashFailed(h1.st, hs)
    ELSE IF nh.st # "ok" THEN HashFailed(nh.st, hs1)
    ELSE IF fh.st # "ok" THEN HashFailed(fh.st, fh.hs)
    ELSE [st |-> "ok", hash1 |-> h1.d, hash2 |-> sha1(h1.d \o nh.d \o prefix),
          hash3 |-> sha1(fh.d \o nh.d \o prefix), hs |-> fh.hs]
\* h.digest() of a pass that fed r.fed to its hash object
Digest(r) == [r EXCEPT !.fed = <<>>] @@ [d |-> IF r.st = "ok" THEN sha1(r.fed) ELSE NoDigest]
\* PboFile.hash(file, version); file is a handle, NoFp for None
hash(p, hs, file, version) ==
    LET fid == IF file = NoFp THEN p.fp ELSE file
        hs1 == [hs EXCEPT ![fid] = hash1(hs[fid]).f]
    IN IF fid = NoFp THEN HashFailed("error", hs)
       ELSE HashParts(Digest(hash1(hs[fid])), Digest(namehash(p, hs1)),
                      Digest(filehash(p, hs1, version)), PrefixBytes(p), hs, hs1)

(***************************************************************************)
(* PboFile.add, PboFile.close                                              *)
(***************************************************************************)
\* os.path.sep on a POSIX host
OsPathSep == 47
\* name.replace(os.path.sep, '\\').encode()
NormalizeName(name) == [i \in 1..Len(name) |-> IF name[i] = OsPathSep THEN Backslash
                                               ELSE name[i]]
add(p, name, file) ==
    LET dst_name == NormalizeName(name)
    IN IF DictHas(p.filedict, dst_name) THEN [st |-> "error", p |-> p]
       ELSE [st |-> "ok",
             p |-> [p EXCEPT !.filedict =
                       Append(@, <<dst_name, PboInfo(dst_name, 0, 0, 0, 0, -1, file)>>)]]

\* PboFile.delete(name): name is [kind, filename], a str, a bytes object or a
\* PboInfo.  The keys of filedict are bytes, so pop of a str finds nothing,
\* and a bytes object has no attribute filename.
delete(p, name) ==
    IF name.kind = "info" /\ DictHas(p.filedict, name.filename)
    THEN [st |-> "ok", p |-> [p EXCEPT !.filedict = DictPop(@, name.filename)]]
    ELSE [st |-> "error", p |-> p]

close(p, hs) == IF p.fp # NoFp THEN [hs EXCEPT ![p.fp].closed = TRUE] ELSE hs

(***************************************************************************)
(* pbo(pbo_path, create_pbo=True, files=...), with the default include and *)
(* exclude patterns, which let every name through.  An item of the file    *)
(* list is [kind, name, fp]: a regular file with the handle that open      *)
(* returns for it, a directory, or a path that names nothing.              *)
(***************************************************************************)
PboPrefixName == <<36, 80, 66, 79, 80, 82, 69, 70, 73, 88, 36>>   \* $PBOPREFIX$
\* the characters str.rstrip() takes off, as code points
Whitespace == {9, 10, 11, 12, 13, 28, 29, 30, 31, 32, 133, 160, 5760, 8232, 8233, 8239,
               8287, 12288} \cup (8192..8202)
\* open(f, 'r') decodes the file as UTF-8, the encoding of the locale, and
\* raises UnicodeDecodeError for bytes that are no UTF-8.  How many bytes
\* the character that starts with byte b takes, 0 when none starts so:
Utf8Width(b) ==
    IF b < 128 THEN 1 ELSE IF b \in 194..223 THEN 2 ELSE IF b \in 224..239 THEN 3
    ELSE IF b \in 240..244 THEN 4 ELSE 0
\* the bytes that may follow the first byte b of a character at once
Utf8Second(b) ==
    IF b = 224 THEN 160..191 ELSE IF b = 237 THEN 128..159
    ELSE IF b = 240 THEN 144..191 ELSE IF b = 244 THEN 128..143 ELSE 128..191
\* the code points of the bytes of data from index i on, after acc; st is
\* "short" when the data end inside a character that is good so far, or
\* after the first two bytes of a surrogate (ED and A0..BF), which the
\* decoder refuses only once it has the third byte or the end of the input
RECURSIVE Utf8Decode(_, _, _)
Utf8Decode(data, i, acc) ==
    IF i > Len(data) THEN [st |-> "ok", v |-> acc]
    ELSE LET b == data[i]
             w == Utf8Width(b)
             tail(k) == data[i + k] % 64
             last == Min(w - 1, Len(data) - i)
         IN IF w = 0 THEN [st |-> "error", v |-> acc]
            ELSE IF w = 1 THEN Utf8Decode(data, i + 1, Append(acc, b))
            ELSE IF b = 237 /\ Len(data) = i + 1 /\ data[i + 1] \in 160..191
                 THEN [st |-> "short", v |-> acc]
            ELSE IF \/ last >= 1 /\ data[i + 1] \notin Utf8Second(b)
                    \/ \E k \in 2..last : data[i + k] \notin 128..191
                 THEN [st |-> "error", v |-> acc]
            ELSE IF last < w - 1 THEN [st |-> "short", v |-> acc]
            ELSE IF w = 2
                 THEN Utf8Decode(data, i + 2, Append(acc, (b % 32) * 64 + tail(1)))
            ELSE IF w = 3
                 THEN Utf8Decode(data, i + 3,
                                 Append(acc, (b % 16) * 4096 + tail(1) * 64 + tail(2)))
            ELSE Utf8Decode(data, i + 4,
                            Append(acc, (b % 8) * 262144 + tail(1) * 4096 + tail(2) * 64
                                          + tail(3)))
\* str.encode() of one code point
Utf8Char(c) ==
    IF c < 128 THEN <<c>>
    ELSE IF c < 2048 THEN <<192 + (c \div 64), 128 + (c % 64)>>
    ELSE IF c < 65536
    THEN <<224 + (c \div 4096), 128 + ((c \div 64) % 64), 128 + (c % 64)>>
    ELSE <<240 + (c \div 262144), 128 + ((c \div 4096) % 64), 128 + ((c \div 64) % 64),
           128 + (c % 64)>>
Utf8Encode(s) == Concat([i \in 1..Len(s) |-> Utf8Char(s[i])], Len(s))
\* fp.readline().rstrip().encode() at the start of a file opened in text
\* mode, a file shorter than the 8192 bytes the reader decodes at a time: the
\* line ends before the first LF or CR (universal newlines), and the
\* characters of Whitespace at its end are dropped.  Bytes that are no UTF-8
\* raise UnicodeDecodeError wherever they stand; a character cut short by
\* the end of the file does so when the reader has to go on to the end of
\* the file: when no line has ended, or with a CR just before it, after
\* which the reader looks for a LF
FirstLine(data) ==
    LET text == Utf8Decode(data, 1, <<>>)
        nl == {i \in 1..Len(text.v) : text.v[i] \in {10, 13}}
        ended == \E i \in nl : text.v[i] = 10 \/ i < Len(text.v)
        line == IF nl = {} THEN text.v
                ELSE SubSeq(text.v, 1, (CHOOSE i \in nl : \A j \in nl : i <= j) - 1)
        solid == {i \in 1..Len(line) : line[i] \notin Whitespace}
    IN [st |-> IF text.st = "ok" \/ (text.st = "short" /\ ended) THEN "ok" ELSE "error",
        v |-> IF solid = {} THEN <<>>
              ELSE Utf8Encode(SubSeq(line, 1, CHOOSE i \in solid : \A j \in solid : j <= i))]
\* the body of the loop over the file list; files(f) calls the list itself,
\* which raises TypeError
pbo_walk(p, hs, item, recursion, pboprefixfile) ==
    IF item.kind = "file"
    THEN IF pboprefixfile /\ item.name = PboPrefixName
         THEN LET line == FirstLine(hs[item.fp].data)
              IN IF line.st # "ok" THEN [st |-> "error", p |-> p]
                 ELSE [st |-> "ok",
                       p |-> [p EXCEPT !.header_extension = DictSet(@, Prefix, line.v)]]
         ELSE add(p, item.name, item.fp)
    ELSE IF recursion /\ item.kind = "dir" THEN [st |-> "error", p |-> p]
    ELSE [st |-> "ok", p |-> p]

(***************************************************************************)
(* create_pbo(pbo_path, delete_path) and open_pbo(pbo_path, delete_pbo),   *)
(* with the default patterns.  create_pbo looks every name f of the        *)
(* listing up as pbo_path, a backslash and f: the kind of an item is what  *)
(* that path names, and its sub what os.listdir gives for it.              *)
(***************************************************************************)
PboSuffix == <<46, 112, 98, 111>>                                  \* .pbo
\* f"{pbo_path}\\{f}"
Joined(pbo_path, f) == pbo_path \o <<Backslash>> \o f
\* os.path.join(f, fn) for a name fn that is no absolute path
os_path_join(f, fn) ==
    IF Len(f) = 0 \/ f[Len(f)] = OsPathSep THEN f \o fn ELSE f \o <<OsPathSep>> \o fn
\* the body of the loop of create_pbo over the listing; more is what the
\* round appends to the listing
create_pbo_walk(p, hs, pbo_path, item, pboprefixfile) ==
    IF item.kind = "file"
    THEN IF pboprefixfile /\ Joined(pbo_path, item.name) = PboPrefixName
         THEN LET line == FirstLine(hs[item.fp].data)
              IN IF line.st # "ok" THEN [st |-> "error", p |-> p, more |-> <<>>]
                 ELSE [st |-> "ok", more |-> <<>>,
                       p |-> [p EXCEPT !.header_extension = DictSet(@, Prefix, line.v)]]
         ELSE add(p, item.name, item.fp) @@ [more |-> <<>>]
    ELSE IF item.kind = "dir"
    THEN [st |-> "ok", p |-> p,
          more |-> [i \in 1..Len(item.sub) |->
                      [item.sub[i] EXCEPT !.name = os_path_join(item.name, @)]]]
    ELSE [st |-> "ok", p |-> p, more |-> <<>>]

\* s.replace(old, ''), old not empty
RECURSIVE Without(_, _)
Without(s, old) ==
    IF Len(s) < Len(old) THEN s
    ELSE IF SubSeq(s, 1, Len(old)) = old THEN Without(SubSeq(s, Len(old) + 1, Len(s)), old)
    ELSE <<s[1]>> \o Without(SubSeq(s, 2, Len(s)), old)
\* name.replace('\\', os.path.sep)
Localize(name) == [i \in 1..Len(name) |-> IF name[i] = Backslash THEN OsPathSep ELSE name[i]]
\* b.decode() succeeds
Decodes(b) == Utf8Decode(b, 1, <<>>).st = "ok"

\* The file system that open_pbo works on is a dictionary from places to
\* what is there.  A place is the sequence of the names that lead to it
\* from the root; the root and the working directory are directories that
\* are always there, and every other place that holds something lies in a
\* directory that is there.  Links, permissions and the limits on the
\* length of a name are left out.
\* F(x), with x worked out once and for all
With(x, F(_)) == CHOOSE y \in {F(v) : v \in {x}} : TRUE
Cwd == <<<<119>>>>                                                 \* /w
Dot == <<46>>
DotDot == <<46, 46>>
\* the time of the writes of open_pbo, later than every time of Init
Now == 1800000000
Directory == [dir |-> TRUE, data |-> <<>>, mtime |-> 0]
RegularFile(data, mtime) == [dir |-> FALSE, data |-> data, mtime |-> mtime]
IsDir(fs, at) == at = <<>> \/ at = Cwd \/ (DictHas(fs, at) /\ DictGet(fs, at).dir)
IsFile(fs, at) == at # <<>> /\ at # Cwd /\ DictHas(fs, at) /\ ~ DictGet(fs, at).dir
\* the names of a path, the empty ones between and after the separators too
RECURSIVE Components(_)
Components(path) ==
    LET seps == {i \in 1..Len(path) : path[i] = OsPathSep}
        i == CHOOSE j \in seps : \A k \in seps : j <= k
    IN IF seps = {} THEN <<path>>
       ELSE <<SubSeq(path, 1, i - 1)>> \o Components(SubSeq(path, i + 1, Len(path)))
\* the path without the separators at its end
Bare(path) ==
    LET solid == {i \in 1..Len(path) : path[i] # OsPathSep}
    IN IF solid = {} THEN <<>>
       ELSE SubSeq(path, 1, CHOOSE i \in solid : \A j \in solid : j <= i)
\* where the walk along a path starts
Start(path) == IF path # <<>> /\ path[1] = OsPathSep THEN <<>> ELSE Cwd
\* the walk of the system along the names comps[i], comps[i + 1], ... from
\* the place cur: a name is looked up in a directory only, an empty name
\* and '.' stay there and '..' goes up, at the root nowhere
RECURSIVE Lookup(_, _, _, _)
Lookup(fs, comps, i, cur) ==
    IF i > Len(comps) THEN [st |-> "ok", at |-> cur]
    ELSE IF ~ IsDir(fs, cur) THEN [st |-> "error", at |-> cur]
    ELSE IF comps[i] \in {<<>>, Dot} THEN Lookup(fs, comps, i + 1, cur)
    ELSE IF comps[i] = DotDot
    THEN Lookup(fs, comps, i + 1, IF cur = <<>> THEN cur ELSE SubSeq(cur, 1, Len(cur) - 1))
    ELSE Lookup(fs, comps, i + 1, Append(cur, comps[i]))
\* the directory that the last name of a path is looked up in
Parent(fs, path) ==
    LET comps == Components(path)
    IN Lookup(fs, Append(SubSeq(comps, 1, Len(comps) - 1), <<>>), 1, Start(path))
\* os.path.exists(path)
os_path_exists(fs, path) ==
    LET r == Lookup(fs, Components(path), 1, Start(path))
    IN path # <<>> /\ r.st = "ok" /\ (IsDir(fs, r.at) \/ IsFile(fs, r.at))
\* os.path.split(p) of posixpath
os_path_split(p) ==
    LET seps == {i \in 1..Len(p) : p[i] = OsPathSep}
        i == IF seps = {} THEN 0 ELSE CHOOSE j \in seps : \A k \in seps : k <= j
        head == SubSeq(p, 1, i)
    IN <<IF Bare(head) = <<>> THEN head ELSE Bare(head), SubSeq(p, i + 1, Len(p))>>
\* os.path.dirname(p)
os_path_dirname(p) == os_path_split(p)[1]
\* os.mkdir(path); st is "exists" for FileExistsError and "error" for every
\* other OSError
os_mkdir(fs, path) ==
    LET comps == Components(Bare(path))
        last == comps[Len(comps)]
        dir == Parent(fs, Bare(path))
        at == Append(dir.at, last)
    IN IF path = <<>> THEN [st |-> "error", fs |-> fs]
       ELSE IF Bare(path) = <<>> THEN [st |-> "exists", fs |-> fs]
       ELSE IF dir.st # "ok" THEN [st |-> "error", fs |-> fs]
       ELSE IF last \in {Dot, DotDot} \/ IsDir(fs, at) \/ IsFile(fs, at)
       THEN [st |-> "exists", fs |-> fs]
       ELSE [st |-> "ok", fs |-> DictSet(fs, at, Directory)]
\* os.makedirs(name): the directories above are made first when the one
\* just above is not there, a FileExistsError on the way is passed over, and
\* a path that ends in '.' is done with that
RECURSIVE os_makedirs(_, _)
os_makedirs(fs, name) ==
    LET first == os_path_split(name)
        s == IF first[2] = <<>> THEN os_path_split(first[1]) ELSE first
        Below(above) ==
            IF above.st = "error" THEN above
            ELSE IF s[2] = Dot THEN [st |-> "ok", fs |-> above.fs]
            ELSE os_mkdir(above.fs, name)
    IN IF s[1] # <<>> /\ s[2] # <<>> /\ ~ os_path_exists(fs, s[1])
       THEN With(os_makedirs(fs, s[1]), Below)
       ELSE os_mkdir(fs, name)
\* open(path, 'wb') or open(path, 'w'): the file is made, or emptied, at the
\* place at
open_w(fs, path) ==
    LET comps == Components(path)
        last == comps[Len(comps)]
        dir == Parent(fs, path)
        at == Append(dir.at, last)
    IN IF path = <<>> \/ dir.st # "ok" \/ last \in {<<>>, Dot, DotDot} \/ IsDir(fs, at)
       THEN [st |-> "error", at |-> at, fs |-> fs]
       ELSE [st |-> "ok", at |-> at, fs |-> DictSet(fs, at, RegularFile(<<>>, Now))]
\* os.remove(path)
os_remove(fs, path) ==
    LET r == Lookup(fs, Components(path), 1, Start(path))
    IN IF path # <<>> /\ r.st = "ok" /\ IsFile(fs, r.at)
       THEN [st |-> "ok", fs |-> DictPop(fs, r.at)]
       ELSE [st |-> "error", fs |-> fs]
\* dst_dir = os.path.dirname(dst_name) and the makedirs under its condition
MakeDir(fs, dst_dir) ==
    IF os_path_exists(fs, dst_dir) \/ dst_dir = <<>> THEN [st |-> "ok", fs |-> fs]
    ELSE os_makedirs(fs, dst_dir)
\* the loop of open_pbo over the entries, on the handle f of the archive
\* and the file system fs.  The empty pattern of exclude matches the empty
\* name; a name that is no UTF-8, a directory that cannot be made and a
\* file that cannot be opened end the loop with an error.  The handle has
\* the whole of an archive shorter than its buffer, and reads on from it
\* when the loop writes over the archive.
RECURSIVE Extract(_, _, _, _, _)
Extract(infos, i, pbo_d, f, fs) ==
    IF i > Len(infos) THEN [st |-> "ok", fs |-> fs, f |-> f]
    ELSE IF ~ Decodes(infos[i].filename) THEN [st |-> "error", fs |-> fs, f |-> f]
    ELSE IF infos[i].filename = <<>> THEN Extract(infos, i + 1, pbo_d, f, fs)
    ELSE LET dst_name == pbo_d \o <<Backslash>> \o Localize(infos[i].filename)
             Rest(r, written) == Extract(infos, i + 1, pbo_d, r.f, written)
             Copy(dst, r) ==
                 With(DictSet(dst.fs, dst.at, RegularFile(r.data, Now)), LAMBDA w : Rest(r, w))
             Write(made, dst) ==
                 IF dst.st # "ok" THEN [st |-> "error", fs |-> made.fs, f |-> f]
                 ELSE With(ReadView(PboExtFile(infos[i]), f, <<>>), LAMBDA r : Copy(dst, r))
             Opened(made) ==
                 IF made.st # "ok" THEN [st |-> "error", fs |-> made.fs, f |-> f]
                 ELSE With(open_w(made.fs, dst_name), LAMBDA dst : Write(made, dst))
         IN With(MakeDir(fs, os_path_dirname(dst_name)), Opened)
\* with open('$PBOPREFIX$', 'w') as f: f.write(prefix.decode()), which
\* leaves the file empty when the prefix is no UTF-8
WritePrefix(fs, prefix) ==
    LET f == open_w(fs, PboPrefixName)
        text == Utf8Decode(prefix, 1, <<>>)
    IN IF f.st # "ok" \/ text.st # "ok" THEN [st |-> "error", fs |-> f.fs]
       ELSE [st |-> "ok", fs |-> DictSet(f.fs, f.at, RegularFile(Utf8Encode(text.v), Now))]
\* open_pbo after r = PboFile.from_file(pbo_path), on the file system fs,
\* which has the archive at pbo_path: the file system afterwards, and the
\* handle, which the with block closes and a failure of from_file leaves
\* open
open_pbo(r, pbo_path, fs, pboprefixfile, delete_pbo) ==
    LET pbo_d == Without(pbo_path, PboSuffix)
        Remove(x) ==
            IF x.st # "ok" \/ ~ delete_pbo
            THEN [st |-> x.st, fs |-> x.fs, f |-> [x.f EXCEPT !.closed = TRUE]]
            ELSE os_remove(x.fs, pbo_path) @@ [f |-> [x.f EXCEPT !.closed = TRUE]]
        Loop(prefixed) ==
            IF prefixed.st # "ok"
            THEN [st |-> "error", fs |-> prefixed.fs, f |-> [r.f EXCEPT !.closed = TRUE]]
            ELSE With(Extract(infolist(r), 1, pbo_d, r.f, prefixed.fs), Remove)
        WithPrefix(made) ==
            IF made.st # "ok" \/ ~ (pboprefixfile /\ DictHas(r.header_extension, Prefix))
            THEN Loop(made)
            ELSE With(WritePrefix(made.fs, DictGet(r.header_extension, Prefix)), Loop)
    IN IF r.st # "ok" THEN [st |-> r.st, fs |-> fs, f |-> r.f]
       ELSE With(MakeDir(fs, pbo_d), WithPrefix)

(***************************************************************************)
(* pow(base, exponent, modulus) on Python longs.  Inside pow a number is a *)
(* sequence of base-4096 digits, least significant first, one digit longer *)
(* than the modulus.  Between the steps of a multiplication the digits are *)
(* left unnormalised: a digit may be negative or exceed the radix, and the *)
(* last digit takes whatever lies above it.                                *)
(***************************************************************************)
Radix == 4096
\* the k-th hexadecimal digit of a long, counted from 0 at the least significant end
HexAt(a, k) ==
    LET j == Len(a) - (k \div 2)
    IN IF j < 1 THEN 0 ELSE IF k % 2 = 0 THEN a[j] % 16 ELSE a[j] \div 16
ToDigits(a, L) ==
    SubSeq([i \in 1..L |-> HexAt(a, 3 * i - 3) + 16 * HexAt(a, 3 * i - 2)
                             + 256 * HexAt(a, 3 * i - 1)], 1, L)
DigitHex(d, k) ==
    IF k \div 3 + 1 > Len(d) THEN 0 ELSE (d[k \div 3 + 1] \div (16 ^ (k % 3))) % 16
FromDigits(d) ==
    LET nb == (3 * Len(d) + 1) \div 2
    IN Normalize([i \in 1..nb |-> DigitHex(d, 2 * (nb - i)) + 16 * DigitHex(d, 2 * (nb - i) + 1)])
\* int.bit_length()
BitLength(a) ==
    IF a = <<>> THEN 0
    ELSE 8 * (Len(a) - 1) + (CHOOSE k \in 1..8 : 2 ^ (k - 1) <= a[1] /\ a[1] < 2 ^ k)
\* the value of the digits d divided by 2^k, to within the digits below the cut
Scaled(d, k) ==
    LET RECURSIVE Hi(_)
        \* the value of the digits from the i-th on
        Hi(i) == IF i > Len(d) THEN 0 ELSE Hi(i + 1) * Radix + d[i]
    IN IF k < 0 THEN Hi(1) * (2 ^ (0 - k))
       ELSE Hi(k \div 12 + 2) * (2 ^ (12 - (k % 12))) + (d[k \div 12 + 1] \div (2 ^ (k % 12)))
\* what a multiplication needs of its modulus: the digits n, their number L,
\* and a divisor dv of at most 2^16 with n <= dv * 2^sh
Modulus(n) ==
    LET L == (BitLength(n) + 11) \div 12 + 1
        sh == IF BitLength(n) > 16 THEN BitLength(n) - 16 ELSE 0
    IN [n |-> ToDigits(n, L), L |-> L, sh |-> sh,
        dv |-> Scaled(ToDigits(n, L), sh) + (IF sh = 0 THEN 0 ELSE 1)]
\* an estimate of (r * Radix + x * b) divided by the modulus; bt is Scaled(b, m.sh)
Quotient(r, x, bt, m) == (Scaled(r, m.sh - 12) + x * bt) \div m.dv
\* r * Radix + x * b - q * n, with one round of carries
Step(r, x, b, q, m) ==
    SubSeq([i \in 1..m.L |->
        IF i = 1 THEN (x * b[1] - q * m.n[1]) % Radix
        ELSE IF i < m.L
        THEN ((r[i - 1] + x * b[i] - q * m.n[i]) % Radix)
               + (((IF i > 2 THEN r[i - 2] ELSE 0) + x * b[i - 1] - q * m.n[i - 1])
                    \div Radix)
        ELSE r[i - 1] + Radix * r[i]
               + (((IF i > 2 THEN r[i - 2] ELSE 0) + x * b[i - 1] - q * m.n[i - 1])
                    \div Radix)],
           1, m.L)
\* Horner's rule over the digits hi down to lo of a: r * Radix^(hi - lo + 1)
\* + a[lo..hi] * b, less a multiple of the modulus that leaves it between -n
\* and 2n; the span is halved rather than walked so that the evaluation stays
\* shallow
RECURSIVE MulFold(_, _, _, _, _, _, _)
MulFold(r, a, b, bt, m, hi, lo) ==
    IF hi < lo THEN r
    ELSE IF hi = lo THEN Step(r, a[hi], b, Quotient(r, a[hi], bt, m), m)
    ELSE LET mid == (hi + lo + 1) \div 2
             half == MulFold(r, a, b, bt, m, hi, mid)
         IN IF Len(half) >= 0 THEN MulFold(half, a, b, bt, m, mid - 1, lo) ELSE half
\* all carries taken: every digit but the last in 0..Radix-1
RECURSIVE Carry(_, _, _, _)
Carry(v, i, c, acc) ==
    IF i = Len(v) THEN Append(acc, v[i] + c)
    ELSE Carry(v, i + 1, (v[i] + c) \div Radix, Append(acc, (v[i] + c) % Radix))
\* the digits of the number in 0..n-1 that r, with all carries taken, stands
\* for modulo n
RECURSIVE Canon(_, _)
Canon(r, m) ==
    IF r[m.L] < 0 THEN Canon(Carry([i \in 1..m.L |-> r[i] + m.n[i]], 1, 0, <<>>), m)
    ELSE IF \E i \in 1..m.L : r[i] < m.n[i] /\ \A j \in (i + 1)..m.L : r[j] = m.n[j]
    THEN r
    ELSE Canon(Carry([i \in 1..m.L |-> r[i] - m.n[i]], 1, 0, <<>>), m)
\* (a * b) mod n for a digit sequence a of any length and b below n
MulMod(a, b, m) ==
    Canon(Carry(MulFold([i \in 1..m.L |-> 0], a, b, Scaled(b, m.sh), m, Len(a), 1),
                1, 0, <<>>), m)
\* a mod n for a long a
LongMod(a, m) ==
    MulMod(ToDigits(a, (BitLength(a) + 11) \div 12 + 1),
           [i \in 1..m.L |-> IF i = 1 THEN 1 ELSE 0], m)
\* the bits of a long, most significant first
Bits(e) ==
    [i \in 1..BitLength(e) |->
        (e[Len(e) - ((BitLength(e) - i) \div 8)] \div (2 ^ ((BitLength(e) - i) % 8))) % 2]
\* square and multiply over the bits lo..hi of the exponent
RECURSIVE PowFold(_, _, _, _, _, _)
PowFold(r, b, m, bits, lo, hi) ==
    IF lo > hi THEN r
    ELSE IF lo = hi
    THEN IF bits[lo] = 1 THEN MulMod(MulMod(r, r, m), b, m) ELSE MulMod(r, r, m)
    ELSE LET mid == (lo + hi) \div 2
             half == PowFold(r, b, m, bits, lo, mid)
         IN IF Len(half) >= 0 THEN PowFold(half, b, m, bits, mid + 1, hi) ELSE half
\* pow(b, e, n) for longs b >= 0, e >= 0 and n > 0
pow(b, e, n) ==
    LET m == Modulus(n)
        bd == LongMod(b, m)
    IN IF e = <<>> THEN FromDigits(LongMod(<<1>>, m))
       ELSE FromDigits(PowFold(bd, bd, m, Bits(e), 2, BitLength(e)))

(***************************************************************************)
(* padding                                                                 *)
(***************************************************************************)
\* '3021300906052b0e03021a05000414'
DigestInfo == <<3, 0, 2, 1, 3, 0, 0, 9, 0, 6, 0, 5, 2, 11, 0, 14, 0, 3, 0, 2, 1, 10, 0, 5,
                0, 0, 0, 4, 1, 4>>
\* s * count: the empty string when count is below one
Repeat(s, count) ==
    IF count < 1 THEN <<>> ELSE [i \in 1..(Len(s) * count) |-> s[((i - 1) % Len(s)) + 1]]
\* a padding that leaves the digest out
PaddingOfNothing(hash_value, tlen) ==
    long16(<<0, 0, 0, 1>> \o Repeat(<<15, 15>>, tlen - (Len(hash_value) \div 2) - 3 - 15)
             \o <<0, 0>> \o DigestInfo \o [i \in 1..Len(hash_value) |-> 0])
\* padding(hash_value, tlen): hash_value is a hex string
padding(hash_value, tlen) ==
    long16(<<0, 0, 0, 1>> \o Repeat(<<15, 15>>, tlen - (Len(hash_value) \div 2) - 3 - 15)
             \o <<0, 0>> \o DigestInfo \o hash_value)

(***************************************************************************)
(* PublicKey, PrivateKey and Bisign in the 'bi' form.  The exponents, the  *)
(* modulus and the signatures are longs; bitlen and version are integers.  *)
(***************************************************************************)
PublicKey(name, bitlen, public_exponent, modulus) ==
    [name |-> name, bitlen |-> bitlen, public_exponent |-> public_exponent,
     modulus |-> modulus]
\* PublicKey()
NoKey == PublicKey(<<>>, 1024, <<>>, <<>>)
\* open(path, 'rb') on the file that f holds
Open(f) == [f EXCEPT !.pos = 0, !.closed = FALSE]
\* struct.unpack of file.read(n): an error when the file has fewer than n bytes left
ReadBytes(f, n) ==
    LET r == file_read(f, n)
    IN [st |-> IF Len(r.data) = n THEN "ok" ELSE "error", data |-> r.data, f |-> r.f]
\* a '<I' length and that many bytes
ReadSized(f) ==
    LET len == ReadBytes(f, 4)
    IN IF len.st # "ok" THEN len ELSE ReadBytes(len.f, UnpackU32(len.data, 1))

\* PublicKey._from_file(file, 'bi'); the 12, 4 and 8 bytes after the name are
\* read here in one piece
PublicKey_from_file(f0) ==
    LET name == unpack_asciiz(f0)
        blob == ReadBytes(name.f, 24)
        modulus == ReadBytes(blob.f, UnpackU32(blob.data, 17) \div 8)
    IN IF name.st # "ok" THEN [st |-> name.st, key |-> NoKey, f |-> name.f]
       ELSE IF blob.st # "ok" THEN [st |-> "error", key |-> NoKey, f |-> blob.f]
       ELSE IF modulus.st # "ok" THEN [st |-> "error", key |-> NoKey, f |-> modulus.f]
       ELSE [st |-> "ok",
             key |-> PublicKey(name.s, UnpackU32(blob.data, 17),
                               bytes_to_int(SubSeq(blob.data, 21, 24), "little"),
                               bytes_to_int(modulus.data, "little")),
             f |-> modulus.f]

\* PrivateKey._from_file(file, 'bi'); the two primes, the two exponents and the
\* coefficient, bitlen // 16 bytes each, are read and not looked at again by
\* sign, so they are passed over in one piece
PrivateKey_from_file(f0) ==
    LET pub == PublicKey_from_file(f0)
        crt == ReadBytes(pub.f, 5 * (pub.key.bitlen \div 16))
        d == ReadBytes(crt.f, pub.key.bitlen \div 8)
    IN IF pub.st # "ok" THEN [st |-> pub.st, public_key |-> NoKey, private_exponent |-> <<>>]
       ELSE IF crt.st # "ok" \/ d.st # "ok"
       THEN [st |-> "error", public_key |-> NoKey, private_exponent |-> <<>>]
       ELSE [st |-> "ok", public_key |-> pub.key,
             private_exponent |-> bytes_to_int(d.data, "little")]

Bisign(pkey, sig1, sig2, sig3, version) ==
    [public_key |-> pkey, sig1 |-> sig1, sig2 |-> sig2, sig3 |-> sig3, version |-> version]
\* Bisign._from_file; the version and the second length are read here one by one
Bisign_from_file(f0) ==
    LET pub == PublicKey_from_file(f0)
        sig1 == ReadSized(pub.f)
        version == ReadBytes(sig1.f, 4)
        sig2 == ReadSized(version.f)
        sig3 == ReadSized(sig2.f)
    IN IF pub.st # "ok" THEN [st |-> pub.st] @@ Bisign(NoKey, <<>>, <<>>, <<>>, 3)
       ELSE IF sig1.st # "ok" \/ version.st # "ok" \/ sig2.st # "ok" \/ sig3.st # "ok"
       THEN [st |-> "error"] @@ Bisign(NoKey, <<>>, <<>>, <<>>, 3)
       ELSE [st |-> "ok"]
              @@ Bisign(pub.key, bytes_to_int(sig1.data, "little"),
                        bytes_to_int(sig2.data, "little"), bytes_to_int(sig3.data, "little"),
                        UnpackU32(version.data, 1))

\* the bytes PublicKey._export writes; struct.pack and to_bytes fail on a
\* number that does not fit its field
PublicKey_export(key) ==
    LET e == int_to_bytes(key.public_exponent, 4, "little")
        n == int_to_bytes(key.modulus, key.bitlen \div 8, "little")
    IN IF e.st # "ok" THEN [st |-> "error", out |-> <<>>]
       ELSE IF n.st # "ok"
       THEN [st |-> "error",
             out |-> key.name \o <<NUL>> \o PackU32(key.bitlen \div 8 + 20) \o <<6, 2, 0, 0>>
                       \o PackU32(9216) \o <<82, 83, 65, 49>> \o PackU32(key.bitlen) \o e.v]
       ELSE [st |-> "ok",
             out |-> key.name \o <<NUL>> \o PackU32(key.bitlen \div 8 + 20) \o <<6, 2, 0, 0>>
                       \o PackU32(9216) \o <<82, 83, 65, 49>> \o PackU32(key.bitlen) \o e.v
                       \o n.v]

\* the bytes Bisign._export writes, up to the first number that does not fit
Bisign_export(bsign) ==
    LET pub == PublicKey_export(bsign.public_key)
        len123 == bsign.public_key.bitlen \div 8
        sig1 == int_to_bytes(bsign.sig1, len123, "little")
        sig2 == int_to_bytes(bsign.sig2, len123, "little")
        sig3 == int_to_bytes(bsign.sig3, len123, "little")
    IN IF pub.st # "ok" THEN pub
       ELSE IF sig1.st # "ok" THEN [st |-> "error", out |-> pub.out]
       ELSE IF sig2.st # "ok"
       THEN [st |-> "error",
             out |-> pub.out \o PackU32(len123) \o sig1.v \o PackU32(bsign.version)]
       ELSE IF sig3.st # "ok"
       THEN [st |-> "error",
             out |-> pub.out \o PackU32(len123) \o sig1.v \o PackU32(bsign.version)
                       \o PackU32(len123) \o sig2.v]
       ELSE [st |-> "ok",
             out |-> pub.out \o PackU32(len123) \o sig1.v \o PackU32(bsign.version)
                       \o PackU32(len123) \o sig2.v \o PackU32(len123) \o sig3.v]

(***************************************************************************)
(* sign and verify.  st is how the process ends: "ok" or "verified" for    *)
(* exit 0, "failed" for exit 1, "error" for an exception and "hang" for a  *)
(* read loop that never ends.                                              *)
(***************************************************************************)
\* with PboFile.from_file(pbo_path) as p: p.hash(None, version), given what
\* from_file has returned
HashOpened(r, version) ==
    IF r.st # "ok" THEN HashFailed(r.st, <<r.f>>)
    ELSE hash([header |-> r.header, header_extension |-> r.header_extension,
               filedict |-> r.filedict, fp |-> 1], <<r.f>>, NoFp, version)

NoChecks == <<>>
Ended(st, h, version, out) ==
    [st |-> st, hash1 |-> h.hash1, hash2 |-> h.hash2, hash3 |-> h.hash3,
     version |-> version, checks |-> NoChecks, out |-> out]
\* pow(padding(hash.hexdigest(), bitlen // 8), private_exponent, modulus)
Signature(digest, pkey) ==
    pow(padding(hexdigest(digest), pkey.public_key.bitlen \div 8), pkey.private_exponent,
        pkey.public_key.modulus)
\* the signature file bsign.export has written
Exit(e, h, version) == Ended(e.st, h, version, e.out)
\* sign, given the key it has read and the hashes it has computed; pow raises
\* ValueError for a modulus of 0
SignWith(pkey, h, version) ==
    IF pkey.st # "ok" THEN Ended(pkey.st, HashFailed(pkey.st, <<>>), version, <<>>)
    ELSE IF h.st # "ok" \/ pkey.public_key.modulus = <<>>
    THEN Ended(IF h.st # "ok" THEN h.st ELSE "error", HashFailed("error", <<>>), version, <<>>)
    ELSE Exit(Bisign_export(Bisign(pkey.public_key, Signature(h.hash1, pkey),
                                   Signature(h.hash2, pkey), Signature(h.hash3, pkey),
                                   version)), h, version)
\* sign(key_path, pbo_path, 'bi', version) on the files at the two paths
sign(keyfile, pbofile, version) ==
    SignWith(PrivateKey_from_file(Open(keyfile)),
             HashOpened(from_file(Open(pbofile)), version), version)

\* padding(hash.hexdigest(), pkey.bitlen // 8) == pow(sig, public_exponent, modulus)
Matches(digest, sig, pkey) ==
    padding(hexdigest(digest), pkey.bitlen \div 8) = pow(sig, pkey.public_exponent, pkey.modulus)
Verdict(checks, h, version) ==
    [Ended(IF checks = <<TRUE, TRUE, TRUE>> THEN "verified" ELSE "failed", h, version, <<>>)
       EXCEPT !.checks = checks]
\* verify, given the key and the signature it has read and the hashes it has
\* computed
VerifyWith(pkey, bsign, h) ==
    IF h.st # "ok" \/ pkey.modulus = <<>>
    THEN Ended(IF h.st # "ok" THEN h.st ELSE "error", HashFailed("error", <<>>),
               bsign.version, <<>>)
    ELSE Verdict(<<Matches(h.hash1, bsign.sig1, pkey), Matches(h.hash2, bsign.sig2, pkey),
                   Matches(h.hash3, bsign.sig3, pkey)>>, h, bsign.version)
VerifyRead(key, bsign, pbofile) ==
    IF key.st # "ok" THEN Ended(key.st, HashFailed(key.st, <<>>), 0, <<>>)
    ELSE IF bsign.st # "ok" THEN Ended(bsign.st, HashFailed(bsign.st, <<>>), 0, <<>>)
    ELSE VerifyWith(key.key, bsign, HashOpened(from_file(Open(pbofile)), bsign.version))
\* verify(key_path, pbo_path, sig_path) on the files at the three paths
verify(keyfile, pbofile, sigfile) ==
    VerifyRead(PublicKey_from_file(Open(keyfile)), Bisign_from_file(Open(sigfile)), pbofile)

(***************************************************************************)
(* The input archives of the model.  A layout lists what an archive file   *)
(* holds, in file order: the leading record, the header extension pairs,   *)
(* the index records, the 20 reserved bytes of the closing record, the     *)
(* data region and the trailer.                                            *)
(***************************************************************************)
NameA == <<97, 46, 104>>              \* a.h
NameAU == <<65, 46, 72>>              \* A.H
NameB == <<66, 46, 80, 65, 65>>       \* B.PAA
NameD == <<100>>                      \* d
Names == {NameA, NameAU, NameB, NameD}
Sizes == 0..MaxSize
Vers == 1449489011

Rec(name, size) == [name |-> name, size |-> size]
RecOptions == {Rec(n, sz) : n \in Names, sz \in Sizes}
RECURSIVE SeqsUpTo(_, _)
SeqsUpTo(S, n) ==
    IF n = 0 THEN {<<>>}
    ELSE LET shorter == SeqsUpTo(S, n - 1)
         IN shorter \cup {Append(q, x) : q \in {r \in shorter : Len(r) = n - 1}, x \in S}

\* the payload of the i-th index record: size bytes that name the record
Payload(i, size) == [j \in 1..size |-> 16 * i + j]
LayoutTimestamp(i) == 1449489011 - 65536 * i
LayoutRecord(recs, i) ==
    recs[i].name \o <<NUL>> \o PackU32(0) \o PackU32(recs[i].size) \o PackU32(0)
      \o PackU32(LayoutTimestamp(i)) \o PackU32(recs[i].size)
LayoutData(recs) == Concat([i \in 1..Len(recs) |-> Payload(i, recs[i].size)], Len(recs))
LayoutExt(ext) == Concat([i \in 1..Len(ext) |-> ext[i][1] \o <<NUL>> \o ext[i][2] \o <<NUL>>],
                         Len(ext))
LayoutBody(d) ==
    <<NUL>> \o PackU32(Vers) \o Zeros(16) \o LayoutExt(d.ext) \o <<NUL>>
      \o Concat([i \in 1..Len(d.recs) |-> LayoutRecord(d.recs, i)], Len(d.recs))
      \o <<NUL>> \o d.term \o LayoutData(d.recs)
\* the archive file of a layout
ArchiveBytes(d) ==
    LET body == LayoutBody(d)
        dg == sha1(body)
    IN body \o <<NUL>> \o (IF d.goodsum THEN dg ELSE [i \in 1..20 |-> (dg[i] + 1) % 256])

Layout(ext, recs, term, goodsum) ==
    [scratch |-> FALSE, ext |-> ext, recs |-> recs, term |-> term, goodsum |-> goodsum]
Scratch == [scratch |-> TRUE, ext |-> <<>>, recs |-> <<>>, term |-> Zeros(20),
            goodsum |-> TRUE]

PrefixP == <<112>>
PrefixQ == <<113, 113>>
DistinctNames(recs) == \A i, j \in 1..Len(recs) : recs[i].name = recs[j].name => i = j

(***************************************************************************)
(* The key pairs of the model.  BigKey has 512 bits: its modulus is the    *)
(* product of 47 distinct primes p with p - 1 dividing 5445440, so that    *)
(* m^(3 * 1815147) = m modulo it for every m; a key of several primes has  *)
(* no two-prime fields, and its file leaves them zero.  SmallKey is        *)
(* 251 * 241, of 16 bits.                                                  *)
(***************************************************************************)
BigKey ==
    [public_key |->
        PublicKey(<<107>>, 512, <<3>>,
                  <<232, 227, 26, 81, 203, 87, 150, 155, 145, 153, 253, 223, 115, 207, 207, 97,
                    201, 95, 154, 4, 135, 208, 110, 182, 159, 44, 65, 183, 11, 23, 22, 137,
                    74, 12, 19, 232, 73, 79, 100, 254, 164, 248, 70, 204, 177, 153, 22, 194,
                    41, 155, 52, 101, 237, 190, 44, 192, 115, 35, 6, 72, 235, 85, 61, 85>>),
     private_exponent |-> <<27, 178, 107>>,
     crt |-> Zeros(160)]
SmallKey ==
    [public_key |-> PublicKey(<<115>>, 16, <<7>>, <<236, 75>>),
     private_exponent |-> <<66, 247>>,
     crt |-> <<251, 241, 143, 103, 25>>]
Keys == {BigKey, SmallKey}
\* the .biprivatekey file of a key pair
PrivateKeyFile(k) ==
    k.public_key.name \o <<NUL>> \o PackU32((k.public_key.bitlen \div 16) * 9 + 20)
      \o <<7, 2, 0, 0>> \o PackU32(9216) \o <<82, 83, 65, 50>> \o PackU32(k.public_key.bitlen)
      \o int_to_bytes(k.public_key.public_exponent, 4, "little").v
      \o int_to_bytes(k.public_key.modulus, k.public_key.bitlen \div 8, "little").v
      \o k.crt
      \o int_to_bytes(k.private_exponent, k.public_key.bitlen \div 8, "little").v

(***************************************************************************)
(* The state machine.                                                      *)
(*   src    the layout of the archive on disk (Scratch: there is none),    *)
(*          and under SpecVerify the key pair on disk as well              *)
(*   files  the file objects: ArchiveFp the archive, ExternalFps the       *)
(*          member files on disk, OutFp the file export writes, and under  *)
(*          SpecVerify KeyFp the .biprivatekey, PubFp the .bikey and SigFp *)
(*          the .bisign file                                               *)
(*   p      the PboFile object                                             *)
(*   pc     "start", "open", "exported", "done", "failed", "closed", and   *)
(*          for the command line "signed", "tampered", "edited",           *)
(*          "checked", "checked_tampered", "checked_edited"                *)
(*   res    the outcome of the last call                                   *)
(*   views  the member views that p.open has returned                      *)
(*   disk   the archive path and the temporary file of the command line    *)
(*          that creates an archive                                        *)
(***************************************************************************)
VARIABLES src, files, p, pc, res, views, disk
vars == <<src, files, p, pc, res, views, disk>>

ArchiveFp == 1
ExternalFps == {2, 3, 4}
OutFp == 5
FileObject(data, closed, mtime) == [data |-> data, pos |-> 0, closed |-> closed, mtime |-> mtime]
Unopened == FileObject(<<>>, TRUE, 0)
KeyFp == 6
PubFp == 7
SigFp == 8
\* the files of a key pair on disk; no signature file yet
KeyFiles(k) ==
    <<FileObject(PrivateKeyFile(k), TRUE, 0),
      FileObject(PublicKey_export(k.public_key).out, TRUE, 0), Unopened>>
InitFiles(d) ==
    <<IF d.scratch THEN Unopened ELSE FileObject(ArchiveBytes(d), FALSE, 0),
      FileObject(<<201, 202>>, FALSE, 1449489011),
      FileObject(<<>>, FALSE, 258),
      FileObject(<<203>>, FALSE, 7),
      Unopened>>

Result(op, st, arg, d) ==
    [op |-> op, st |-> st, arg |-> arg, d |-> d, hash1 |-> NoDigest, hash2 |-> NoDigest,
     hash3 |-> NoDigest, pos0 |-> 0, checks |-> NoChecks, kind |-> "none", view |-> 0,
     whence |-> 0]
NoViews == <<>>
\* a path of the disk that names no file
Absent == <<-1>>
\* tmp and dst are the contents of the temporary file and of the archive
\* path, next the place in the file list, more what the walk has added to
\* the list, fs the directories of the file system and the files in it that
\* have no handle in files
NoDisk == [tmp |-> Absent, dst |-> Absent, next |-> 1, more |-> <<>>, fs |-> <<>>]
NoResult == Result("none", "ok", 0, NoDigest)

InitWith(layouts) ==
    /\ src \in layouts
    /\ files = InitFiles(src)
    /\ p = NewPboFile
    /\ pc = "start"
    /\ res = NoResult
    /\ views = NoViews
    /\ disk = NoDisk

\* p = PboFile.from_file(path)
FromFile ==
    /\ pc = "start"
    /\ ~ src.scratch
    /\ LET r == from_file(files[ArchiveFp])
       IN /\ files' = [files EXCEPT ![ArchiveFp] = r.f]
          /\ p' = [header |-> r.header, header_extension |-> r.header_extension,
                   filedict |-> r.filedict, fp |-> ArchiveFp]
          /\ pc' = IF r.st = "ok" THEN "open" ELSE "failed"
          /\ res' = Result("from_file", r.st, 0, NoDigest)
    /\ UNCHANGED <<src, views, disk>>

\* p = PboFile()
Create ==
    /\ pc = "start"
    /\ src.scratch
    /\ p' = NewPboFile
    /\ pc' = "open"
    /\ res' = Result("create", "ok", 0, NoDigest)
    /\ UNCHANGED <<src, files, views, disk>>

AddNames == { <<97, 46, 104>>, <<100, 47, 101>> }   \* a.h  d/e
\* the file object a caller passes to add is one it has just opened
\* (p.add(f, open(f, 'rb'))): the first external file no entry holds yet
FreshFps == {h \in ExternalFps : \A i \in 1..Len(p.filedict) : p.filedict[i][2].fp # h}
\* p.add(name, open(path, 'rb'))
Add ==
    /\ pc = "open"
    /\ Len(p.filedict) < MaxEntries
    /\ FreshFps # {}
    /\ \E name \in AddNames :
          LET h == CHOOSE x \in FreshFps : \A y \in FreshFps : x <= y
              r == add(p, name, h)
          IN /\ p' = r.p
             /\ res' = Result("add", r.st, h, name)
    /\ UNCHANGED <<src, files, pc, views, disk>>

NameSlash == <<100, 47, 101>>         \* d/e
NameBackslash == <<100, 92, 101>>     \* d\e
DeleteArgs == {[kind |-> k, filename |-> n] :
                  k \in {"str", "bytes", "info"}, n \in {NameA, NameSlash, NameBackslash}}
\* p.delete(name)
Delete ==
    /\ pc = "open"
    /\ \E name \in DeleteArgs :
          LET r == delete(p, name)
          IN /\ p' = r.p
             /\ res' = [Result("delete", r.st, 0, name.filename) EXCEPT !.kind = name.kind]
    /\ UNCHANGED <<src, files, pc, views, disk>>

\* p.add('', open(path, 'rb')): a member without a name
AddUnnamed ==
    /\ pc = "open"
    /\ Len(p.filedict) < MaxEntries
    /\ FreshFps # {}
    /\ LET h == CHOOSE x \in FreshFps : \A y \in FreshFps : x <= y
           r == add(p, <<>>, h)
       IN /\ p' = r.p
          /\ res' = Result("add", r.st, h, <<>>)
    /\ UNCHANGED <<src, files, pc, views, disk>>

\* p.header_extension[b'prefix'] = value
SetPrefix ==
    /\ pc = "open"
    /\ \E v \in {PrefixP, PrefixQ} :
          /\ ~ (DictHas(p.header_extension, Prefix) /\ DictGet(p.header_extension, Prefix) = v)
          /\ p' = [p EXCEPT !.header_extension = DictSet(@, Prefix, v)]
          /\ res' = Result("set_prefix", "ok", 0, v)
    /\ UNCHANGED <<src, files, pc, views, disk>>

\* del p.header_extension[b'prefix']
DelPrefix ==
    /\ pc = "open"
    /\ DictHas(p.header_extension, Prefix)
    /\ p' = [p EXCEPT !.header_extension = DictPop(@, Prefix)]
    /\ res' = Result("del_prefix", "ok", 0, NoDigest)
    /\ UNCHANGED <<src, files, pc, views, disk>>

\* export has written r.out to the new file and left the handles as r.hs
Exported(r) ==
    /\ files' = [r.hs EXCEPT ![OutFp] =
                    [data |-> r.out, pos |-> Len(r.out), closed |-> FALSE, mtime |-> 0]]
    /\ res' = Result("export", r.st, 0, NoDigest)
\* with open(path, 'w+b') as out: p.export(out)
Export ==
    /\ pc = "open"
    /\ Exported(export(p, files))
    /\ pc' = "exported"
    /\ UNCHANGED <<src, p, views, disk>>

\* a hash pass has returned r.d and left the handles as r.hs
Hashed(op, arg, r) ==
    /\ res' = Result(op, r.st, arg, r.d)
    /\ files' = r.hs
\* p._namehash()
NameHash ==
    /\ pc = "open"
    /\ Hashed("namehash", 0, Digest(namehash(p, files) @@ [hs |-> files]))
    /\ pc' = "done"
    /\ UNCHANGED <<src, p, views, disk>>

Versions == {1, 2, 3, 4}
\* p._filehash(version)
FileHash ==
    /\ pc = "open"
    /\ \E version \in Versions :
          Hashed("filehash", version, Digest(filehash(p, files, version)))
    /\ pc' = "done"
    /\ UNCHANGED <<src, p, views, disk>>

\* the file a hash call reads: the backing file when open, the exported one after
HashTarget == IF pc = "exported" THEN OutFp ELSE NoFp

Hash1Returned(fid, r) ==
    /\ res' = [Result("hash1", r.st, fid, r.d) EXCEPT !.pos0 = files[fid].pos]
    /\ files' = [files EXCEPT ![fid] = r.f]
\* p.hash1(file)
Hash1 ==
    /\ pc \in {"open", "exported"}
    /\ pc = "exported" => res.st = "ok"
    /\ LET fid == IF HashTarget = NoFp THEN p.fp ELSE HashTarget
       IN IF fid = NoFp
          THEN /\ res' = Result("hash1", "error", 0, NoDigest)
               /\ files' = files
          ELSE Hash1Returned(fid, Digest(hash1(files[fid])))
    /\ pc' = "done"
    /\ UNCHANGED <<src, p, views, disk>>

HashReturned(version, r) ==
    /\ res' = [Result("hash", r.st, version, NoDigest)
                 EXCEPT !.hash1 = r.hash1, !.hash2 = r.hash2, !.hash3 = r.hash3]
    /\ files' = r.hs
\* p.hash(file, version)
Hash ==
    /\ pc \in {"open", "exported"}
    /\ pc = "exported" => res.st = "ok"
    /\ \E version \in Versions :
          HashReturned(version, hash(p, files, HashTarget, version))
    /\ pc' = "done"
    /\ UNCHANGED <<src, p, views, disk>>

\* p.close()
Close ==
    /\ pc \in {"open", "exported", "done"}
    /\ files' = close(p, files)
    /\ pc' = "closed"
    /\ res' = Result("close", "ok", 0, NoDigest)
    /\ UNCHANGED <<src, p, views, disk>>

\* sign has ended as r and left the signature file r.out
Signed(version, r) ==
    /\ files' = [files EXCEPT ![SigFp] = FileObject(r.out, TRUE, 0)]
    /\ res' = [Result("sign", r.st, version, NoDigest)
                 EXCEPT !.hash1 = r.hash1, !.hash2 = r.hash2, !.hash3 = r.hash3]
    /\ pc' = IF r.st = "ok" THEN "signed" ELSE "failed"
SignVersions == {2, 3}
\* sign(key_path, pbo_path, 'bi', version)
Sign ==
    /\ pc = "start"
    /\ Len(files) >= SigFp
    /\ \E version \in SignVersions :
          Signed(version, sign(files[KeyFp], files[ArchiveFp], version))
    /\ UNCHANGED <<src, p, views, disk>>

FlipBit(x, b) == IF (x \div (2 ^ b)) % 2 = 1 THEN x - 2 ^ b ELSE x + 2 ^ b
\* where the payload bytes of the archive lie in its file
PayloadIndices ==
    (Len(files[ArchiveFp].data) - 21 - Len(LayoutData(src.recs)) + 1)
      ..(Len(files[ArchiveFp].data) - 21)
\* somebody flips one bit of one payload byte of the signed archive
Tamper ==
    /\ pc = "signed"
    /\ \E i \in PayloadIndices, b \in 0..7 :
          files' = [files EXCEPT ![ArchiveFp].data[i] = FlipBit(@, b)]
    /\ pc' = "tampered"
    /\ UNCHANGED <<src, p, res, views, disk>>

OtherVersions == {1, 4}
\* somebody rewrites the version field of the signature file
SetVersion ==
    /\ pc = "signed"
    /\ \E v \in OtherVersions :
          files' = [files EXCEPT ![SigFp].data =
                       Bisign_export([Bisign_from_file(Open(files[SigFp]))
                                        EXCEPT !.version = v]).out]
    /\ pc' = "edited"
    /\ UNCHANGED <<src, p, res, views, disk>>

\* verify has ended as r
Verified(r) ==
    res' = [Result("verify", r.st, r.version, NoDigest)
              EXCEPT !.hash1 = r.hash1, !.hash2 = r.hash2, !.hash3 = r.hash3,
                     !.checks = r.checks]
\* verify(key_path, pbo_path, sig_path)
Verify ==
    /\ pc \in {"signed", "tampered", "edited"}
    /\ Verified(verify(files[PubFp], files[ArchiveFp], files[SigFp]))
    /\ pc' = IF pc = "signed" THEN "checked"
             ELSE IF pc = "tampered" THEN "checked_tampered" ELSE "checked_edited"
    /\ UNCHANGED <<src, files, p, views, disk>>

PadDigests == {sha1(<<>>), sha1(NameA)}
\* padding(h.hexdigest(), k)
Pad ==
    /\ pc = "start"
    /\ \E h \in PadDigests, k \in 0..MaxModulusLen :
          res' = [Result("padding", "ok", k, padding(hexdigest(h), k)) EXCEPT !.hash1 = h]
    /\ pc' = "done"
    /\ UNCHANGED <<src, files, p, views, disk>>

\* a member view with the state of the call it is in, which the statement by
\* statement actions keep: at is "idle" between calls, "sought" after the
\* seek of the handle in read, "read" after the read of the handle, "moved"
\* after the seek of the handle in seek; n and data are the argument and
\* the bytes of the read under way; want is the position the view's own
\* calls have taken it to; torn tells that another view has moved the
\* handle during one of its calls, cut that another view has done so
\* between the seek and the read of the handle in one of its reads
View(info) ==
    [view |-> PboExtFile(info), name |-> info.filename, at |-> "idle", n |-> 0,
     data |-> <<>>, want |-> info.data_offset, torn |-> FALSE, cut |-> FALSE]
\* the entries p.open returns a view for
Archived == {i \in 1..Len(p.filedict) : p.filedict[i][2].fp = NoFp}
\* v = p.open(info)
OpenMember ==
    /\ pc = "open"
    /\ Len(views) < MaxViews
    /\ \E i \in Archived :
          /\ views' = Append(views, View(p.filedict[i][2]))
          /\ res' = [Result("open", "ok", 0, p.filedict[i][1]) EXCEPT !.view = Len(views) + 1]
    /\ UNCHANGED <<src, files, p, pc, disk>>

ReadSizes == (-1)..(MaxSize + 1)
\* v.read(n)
Read ==
    /\ pc = "open"
    /\ \E i \in 1..Len(views), n \in ReadSizes :
          LET r == PboExtFile_read(views[i].view, files[p.fp], n)
          IN /\ \A j \in 1..Len(views) : views[j].at = "idle"
             /\ files' = [files EXCEPT ![p.fp] = r.f]
             /\ views' = [views EXCEPT ![i].view = r.view]
             /\ res' = [Result("read", "ok", n, r.data) EXCEPT !.view = i]
    /\ UNCHANGED <<src, p, pc, disk>>

SeekOffsets == (-(MaxSize + 1))..(MaxSize + 1)
Whences == 0..3
\* the positions of a view that the model follows
WithinReach(view, offset, whence) ==
    whence \in {0, 1, 2} =>
       SeekTarget(view, offset, whence) <= view.data_offset + view.data_size + MaxPast
\* v.seek(offset, whence)
Seek ==
    /\ pc = "open"
    /\ \E i \in 1..Len(views), offset \in SeekOffsets, whence \in Whences :
          LET r == PboExtFile_seek(views[i].view, files[p.fp], offset, whence)
          IN /\ \A j \in 1..Len(views) : views[j].at = "idle"
             /\ WithinReach(views[i].view, offset, whence)
             /\ files' = [files EXCEPT ![p.fp] = r.f]
             /\ views' = [views EXCEPT ![i].view = r.view]
             /\ res' = [Result("seek", r.st, offset, NoDigest)
                          EXCEPT !.view = i, !.whence = whence]
    /\ UNCHANGED <<src, p, pc, disk>>

\* the directory that create_pbo packs and open_pbo unpacks into, and the
\* archive beside it
PboPath == <<120>>
ArchivePath == PboPath \o PboSuffix
\* the command line creates an archive from a list of paths, where the
\* archive path names nothing or an older file
Item(kind, name, fp) == [kind |-> kind, name |-> name, fp |-> fp, sub |-> <<>>]
Items == {Item("file", NameA, 2), Item("file", PboPrefixName, 3), Item("file", <<111>>, 4),
          Item("dir", NameD, NoFp), Item("missing", <<109>>, NoFp)}
OldArchive == <<1, 2, 3>>
\* what os.listdir gives create_pbo: names that are not there under the
\* path with the backslash, as on this platform, and names that are
Listing == {Item("missing", NameA, NoFp), Item("file", NameB, 2), Item("file", <<111>>, 4),
            [Item("dir", NameD, NoFp) EXCEPT !.sub = <<Item("file", <<101>>, 3)>>]}
\* the contents of the file that handle 3 reads: a line and more, a line
\* and the start of a character, and the start of a character alone
PrefixFiles == {<<112, 32, 10, 113>>, <<112, 10, 237, 160>>, <<237, 160>>}
\* where the files with a handle in files lie, as pairs of handle and place:
\* the paths that pbo is given, and the paths that create_pbo looks up
Places ==
    IF src.fn = "pbo"
    THEN <<<<2, Append(Cwd, NameA)>>, <<3, Append(Cwd, PboPrefixName)>>,
           <<4, Append(Cwd, <<111>>)>>>>
    ELSE <<<<2, Append(Cwd, Joined(PboPath, NameB))>>,
           <<3, Cwd \o <<Joined(PboPath, NameD), <<101>>>>>>,
           <<4, Append(Cwd, Joined(PboPath, <<111>>))>>>>
ArchivePlace == Append(Cwd, ArchivePath)
\* the directories at the start: the one that the scenario lists, and for
\* create_pbo, when tree holds, pbo_path with the names of the listing in it
InitFs(d, tree) ==
    IF d.fn = "pbo" THEN <<<<Append(Cwd, NameD), Directory>>>>
    ELSE <<<<Append(Cwd, Joined(PboPath, NameD)), Directory>>>>
         \o (IF tree
             THEN <<<<Append(Cwd, PboPath), Directory>>>>
                  \o [i \in 1..Len(d.list) |->
                        <<Cwd \o <<PboPath, d.list[i].name>>, RegularFile(<<>>, 0)>>]
             ELSE <<>>)
\* the file system with the archive and the files that have a handle
RECURSIVE Mount(_, _, _)
Mount(fs, hs, i) ==
    IF i > Len(Places) THEN fs
    ELSE With(DictSet(fs, Places[i][2],
                      RegularFile(hs[Places[i][1]].data, hs[Places[i][1]].mtime)),
              LAMBDA m : Mount(m, hs, i + 1))
Mounted == Mount(DictSet(disk.fs, ArchivePlace, RegularFile(disk.dst, 0)), files, 1)
\* what the file system fs leaves of the handles hs, of which f is that of
\* the archive, and of disk
Unmounted(fs, hs, f) ==
    LET held == {Places[i][2] : i \in 1..Len(Places)} \cup {ArchivePlace}
        Loose(e) == e[1] \notin held
        At(fp) == Places[CHOOSE i \in 1..Len(Places) : Places[i][1] = fp][2]
    IN [files |-> [fp \in 1..Len(hs) |->
                     IF fp = ArchiveFp THEN f
                     ELSE IF \E i \in 1..Len(Places) : Places[i][1] = fp
                     THEN [hs[fp] EXCEPT !.data = DictGet(fs, At(fp)).data,
                                         !.mtime = DictGet(fs, At(fp)).mtime]
                     ELSE hs[fp]],
        dst |-> IF DictHas(fs, ArchivePlace) THEN DictGet(fs, ArchivePlace).data ELSE Absent,
        fs |-> SelectSeq(fs, Loose)]
\* the file list of pbo, and the listing of create_pbo with what the walk
\* has added to it
FileList == src.list \o disk.more
\* tmpfile = tempfile.mkstemp(dir=pbo_dir); os.close(tmpfile[0]); PboFile();
\* in create_pbo os.listdir(pbo_path) comes first and fails when the
\* directory is not there
Mkstemp ==
    /\ pc = "start"
    /\ disk.tmp = Absent
    /\ IF src.fn = "create_pbo" /\ ~ IsDir(disk.fs, Append(Cwd, PboPath))
       THEN /\ pc' = "failed"
            /\ res' = Result("listdir", "error", 0, NoDigest)
            /\ UNCHANGED <<p, disk>>
       ELSE /\ disk' = [disk EXCEPT !.tmp = <<>>]
            /\ p' = NewPboFile
            /\ pc' = "made"
            /\ res' = Result("mkstemp", "ok", 0, NoDigest)
    /\ UNCHANGED <<src, files, views>>

\* one round of 'for f in files'; an exception leaves the function through
\* the with block, which closes p
Walk ==
    /\ pc = "made"
    /\ src.fn = "pbo"
    /\ disk.next <= Len(FileList)
    /\ LET r == pbo_walk(p, files, FileList[disk.next], src.recursion, TRUE)
       IN /\ p' = r.p
          /\ pc' = IF r.st = "ok" THEN "made" ELSE "failed"
          /\ files' = IF r.st = "ok" THEN files ELSE close(r.p, files)
          /\ res' = Result("walk", r.st, disk.next, FileList[disk.next].name)
    /\ disk' = [disk EXCEPT !.next = @ + 1]
    /\ UNCHANGED <<src, views>>

\* one round of 'for f in files' in create_pbo
WalkDir ==
    /\ pc = "made"
    /\ src.fn = "create_pbo"
    /\ disk.next <= Len(FileList)
    /\ LET r == create_pbo_walk(p, files, PboPath, FileList[disk.next], TRUE)
       IN /\ p' = r.p
          /\ pc' = IF r.st = "ok" THEN "made" ELSE "failed"
          /\ files' = IF r.st = "ok" THEN files ELSE close(r.p, files)
          /\ res' = Result("walk", r.st, disk.next, FileList[disk.next].name)
          /\ disk' = [disk EXCEPT !.next = @ + 1, !.more = @ \o r.more]
    /\ UNCHANGED <<src, views>>

\* with open(tmpfile[1], 'wb') as t: p.export(t), and the end of the with
\* block of p
ExportTmp ==
    /\ pc = "made"
    /\ disk.next > Len(FileList)
    /\ LET r == export(p, files)
       IN /\ files' = close(p, r.hs)
          /\ disk' = [disk EXCEPT !.tmp = r.out]
          /\ pc' = IF r.st = "ok" THEN "written" ELSE "failed"
          /\ res' = Result("export", r.st, 0, NoDigest)
    /\ UNCHANGED <<src, p, views>>

\* os.rename(tmpfile[1], pbo_path)
Rename ==
    /\ pc = "written"
    /\ src.fn = "pbo"
    /\ disk' = [disk EXCEPT !.dst = disk.tmp, !.tmp = Absent]
    /\ pc' = "renamed"
    /\ res' = Result("rename", "ok", 0, NoDigest)
    /\ UNCHANGED <<src, files, p, views>>

\* the end of create_pbo: shutil.rmtree(pbo_path) if delete_path, and
\* os.rename(tmpfile[1], pbo_path + ".pbo")
RenameMade ==
    /\ pc = "written"
    /\ src.fn = "create_pbo"
    /\ LET top == Append(Cwd, PboPath)
           Outside(e) == SubSeq(e[1], 1, Len(top)) # top
       IN disk' = [disk EXCEPT !.dst = disk.tmp, !.tmp = Absent,
                               !.fs = IF src.delete_path THEN SelectSeq(@, Outside) ELSE @]
    /\ pc' = "renamed"
    /\ res' = Result("rename", "ok", 0, NoDigest)
    /\ UNCHANGED <<src, files, p, views>>

\* open_pbo(pbo_path, delete_pbo=...) before or after the creation: open
\* raises FileNotFoundError when the archive path names nothing, and
\* os.remove follows an unpacking that went through; what open_pbo writes
\* over a file with a handle in files is what that handle has from then on
OpenPbo ==
    /\ pc \in {"start", "renamed"}
    /\ \E delete_pbo \in BOOLEAN :
          IF disk.dst = Absent
          THEN /\ res' = Result("open_pbo", "error", 0, NoDigest)
               /\ UNCHANGED <<files, pc, disk>>
          ELSE \E q \in {from_file(FileObject(disk.dst, FALSE, 0))} :
               \E m \in {Mounted} :
               \E r \in {open_pbo(q, ArchivePath, m, TRUE, delete_pbo)} :
               \E u \in {Unmounted(r.fs, files, r.f)} :
                  /\ files' = u.files
                  /\ disk' = [disk EXCEPT !.fs = u.fs, !.dst = u.dst]
                  /\ pc' = IF r.st = "hang" THEN "hung" ELSE pc
                  /\ res' = Result("open_pbo", r.st, IF delete_pbo THEN 1 ELSE 0, NoDigest)
    /\ UNCHANGED <<src, p, views>>

\* view i calls seek or read of the shared handle: what the views in the
\* middle of a call have to note
Disturbed(i) ==
    [j \in 1..Len(views) |->
        IF j = i \/ views[j].at = "idle" THEN views[j]
        ELSE [views[j] EXCEPT !.torn = TRUE, !.cut = @ \/ views[j].at = "sought"]]
\* two views are open, on different entries
Apart ==
    /\ Len(views) = MaxViews
    /\ \A i, j \in 1..Len(views) : views[i].name = views[j].name => i = j
SharedReadSizes == {1}
\* v.read(n) up to self.fp.seek(self.pos)
ReadBegin ==
    /\ pc = "open"
    /\ Apart
    /\ \E i \in 1..Len(views), n \in SharedReadSizes :
          /\ views[i].at = "idle"
          /\ files' = [files EXCEPT ![p.fp] = ReadReposition(views[i].view, @)]
          /\ views' = [Disturbed(i) EXCEPT ![i].at = "sought", ![i].n = n]
    /\ UNCHANGED <<src, p, pc, res, disk>>
\* ... up to data = self.fp.read(read_size), which is not called, and leaves
\* the handle and the other views alone, when read_size is not positive
ReadMiddle ==
    /\ pc = "open"
    /\ \E i \in 1..Len(views) :
          LET r == ReadHandle(views[i].view, files[p.fp], views[i].n)
          IN /\ views[i].at = "sought"
             /\ files' = [files EXCEPT ![p.fp] = r.f]
             /\ views' = [IF r.used THEN Disturbed(i) ELSE views
                            EXCEPT ![i].at = "read", ![i].data = r.data]
    /\ UNCHANGED <<src, p, pc, res, disk>>
\* what a read of n bytes at position pos of the view is to return
Slice(view, data, pos, n) ==
    SubSeq(data, pos + 1,
           Min(IF n = -1 THEN view.data_offset + view.data_size
               ELSE Min(pos + n, view.data_offset + view.data_size), Len(data)))
\* ... self.pos = self.fp.tell(); return data
ReadEnd ==
    /\ pc = "open"
    /\ \E i \in 1..Len(views) :
          /\ views[i].at = "read"
          /\ views' = [views EXCEPT
                ![i].view = Retell(@, files[p.fp]), ![i].at = "idle",
                ![i].want = @ + Len(Slice(views[i].view, files[p.fp].data, @, views[i].n))]
          /\ res' = [Result("read", "ok", views[i].n, views[i].data)
                       EXCEPT !.view = i, !.pos0 = views[i].want]
    /\ UNCHANGED <<src, files, p, pc, disk>>
SharedSeekOffsets == {0}
SharedWhences == {0, 3}
\* v.seek(offset, whence) up to self.fp.seek(offset, 0)
SeekBegin ==
    /\ pc = "open"
    /\ Apart
    /\ \E i \in 1..Len(views), offset \in SharedSeekOffsets, whence \in SharedWhences :
          LET r == SeekHandle(views[i].view, files[p.fp], offset, whence)
          IN /\ views[i].at = "idle"
             /\ WithinReach(views[i].view, offset, whence)
             /\ files' = [files EXCEPT ![p.fp] = r.f]
             /\ IF r.st = "ok"
                THEN /\ views' = [Disturbed(i) EXCEPT
                                    ![i].at = "moved",
                                    ![i].want = SeekTarget(views[i].view, offset, whence)]
                     /\ res' = res
                ELSE /\ views' = views
                     /\ res' = [Result("seek", "error", offset, NoDigest)
                                  EXCEPT !.view = i, !.whence = whence]
    /\ UNCHANGED <<src, p, pc, disk>>
\* ... self.pos = self.fp.tell()
SeekEnd ==
    /\ pc = "open"
    /\ \E i \in 1..Len(views) :
          /\ views[i].at = "moved"
          /\ views' = [views EXCEPT ![i].view = Retell(@, files[p.fp]), ![i].at = "idle"]
          /\ res' = [Result("seek", "ok", 0, NoDigest) EXCEPT !.view = i]
    /\ UNCHANGED <<src, files, p, pc, disk>>

(***************************************************************************)
(* Specifications.  SpecCodec reads and re-exports every layout within the *)
(* bounds; SpecHash applies the name and file hashes to them and to        *)
(* members added from disk; Spec runs the whole life of a PboFile on a     *)
(* few layouts.                                                            *)
(***************************************************************************)
ExtOptions == { <<>>, <<<<Prefix, PrefixP>>>> }
RecSeqs == SeqsUpTo(RecOptions, MaxEntries)
GoodLayouts == {Layout(e, r, Zeros(20), TRUE) : e \in ExtOptions, r \in RecSeqs}
\* layouts that stray from the format: a closing record with a reserved field
\* set, a stale checksum, a repeated extension key
Term1 == <<1>> \o Zeros(19)
OddLayouts ==
    {Layout(<<>>, r, Term1, TRUE) : r \in SeqsUpTo(RecOptions, 1)}
      \cup {Layout(<<>>, r, Zeros(20), FALSE) : r \in SeqsUpTo(RecOptions, 1)}
      \cup {Layout(<<<<Prefix, PrefixP>>, <<Prefix, PrefixQ>>>>, r, Zeros(20), TRUE) :
               r \in SeqsUpTo(RecOptions, 1)}
CodecLayouts == GoodLayouts \cup OddLayouts

InitCodec == InitWith(CodecLayouts)
NextCodec == FromFile \/ Export
SpecCodec == InitCodec /\ [][NextCodec]_vars

InitHash == InitWith(GoodLayouts \cup {Scratch})
NextHash == FromFile \/ Create \/ Add \/ NameHash \/ FileHash
SpecHash == InitHash /\ [][NextHash]_vars

LifeRecOptions == {Rec(NameA, MaxSize), Rec(NameB, 1)}
LifeLayouts == {Layout(e, r, Zeros(20), TRUE) :
                   e \in ExtOptions,
                   r \in {q \in SeqsUpTo(LifeRecOptions, MaxEntries) : DistinctNames(q)}}
Init == InitWith(LifeLayouts \cup {Scratch})
Next == FromFile \/ Create \/ Add \/ SetPrefix \/ DelPrefix \/ Export \/ Hash1 \/ Hash
          \/ Close
Spec == Init /\ [][Next]_vars

\* sign, then verify what was signed, what was signed and tampered with, and
\* against a signature file of another version; or read the archive and hash it
VerifyLayouts ==
    {Layout(<<>>, <<>>, Zeros(20), TRUE),
     Layout(<<>>, <<Rec(NameA, MaxSize)>>, Zeros(20), TRUE),
     Layout(<<<<Prefix, PrefixP>>>>, <<Rec(NameA, MaxSize), Rec(NameB, 1)>>, Zeros(20), TRUE)}
InitVerify ==
    /\ src \in {d @@ [key |-> k] : d \in VerifyLayouts, k \in Keys}
    /\ files = InitFiles(src) \o KeyFiles(src.key)
    /\ p = NewPboFile
    /\ pc = "start"
    /\ res = NoResult
    /\ views = NoViews
    /\ disk = NoDisk
NextVerify == FromFile \/ Hash \/ Sign \/ Tamper \/ SetVersion \/ Verify
SpecVerify == InitVerify /\ [][NextVerify]_vars

InitPadding == InitWith({Scratch})
NextPadding == Pad
SpecPadding == InitPadding /\ [][NextPadding]_vars

\* members come and go: a new PboFile, or one read from an archive whose
\* names may hold a slash, takes add and delete calls
MemberLayouts ==
    {Layout(<<>>, r, Zeros(20), TRUE) :
        r \in {q \in SeqsUpTo({Rec(NameA, 1), Rec(NameSlash, 1)}, MaxEntries) :
                  DistinctNames(q)}}
InitMembers == InitWith(MemberLayouts \cup {Scratch})
NextMembers == FromFile \/ Create \/ Add \/ Delete
SpecMembers == InitMembers /\ [][NextMembers]_vars

\* an archive of two members is read, and its members are opened, read and
\* sought call by call; one of the archives has lost its end
ViewLayouts ==
    {Layout(<<>>, <<Rec(NameA, s[1]), Rec(NameB, s[2])>>, Zeros(20), TRUE) :
        s \in {<<MaxSize, MaxSize>>, <<0, MaxSize>>, <<MaxSize, 1>>}}
\* how many bytes of the archive are on disk: all, or all but the trailer
\* and the last payload byte
Keeps(d) == {Len(ArchiveBytes(d)), Len(ArchiveBytes(d)) - 22}
\* the layout d of which only the first k bytes are on disk
Kept(d, k) == d @@ [keep |-> k]
Whole(d) == Kept(d, Len(ArchiveBytes(d)))
InitKept(layouts) ==
    /\ src \in layouts
    /\ files = [InitFiles(src) EXCEPT ![ArchiveFp].data = SubSeq(@, 1, src.keep)]
    /\ p = NewPboFile
    /\ pc = "start"
    /\ res = NoResult
    /\ views = NoViews
    /\ disk = NoDisk
InitView == InitKept(UNION {{Kept(d, k) : k \in Keeps(d)} : d \in ViewLayouts})
NextView == FromFile \/ OpenMember \/ Read \/ Seek
SpecView == InitView /\ [][NextView]_vars

\* the life of a PboFile up to its close, on whole archives and on one that
\* ends in the middle of its index record
ReleaseLayouts ==
    {Whole(d) : d \in LifeLayouts} \cup {Kept(Scratch, 0)}
      \cup {Kept(Layout(<<>>, <<Rec(NameA, MaxSize)>>, Zeros(20), TRUE), 36)}
InitRelease == InitKept(ReleaseLayouts)
NextRelease == FromFile \/ Create \/ Add \/ Export \/ Hash \/ Close
SpecRelease == InitRelease /\ [][NextRelease]_vars

Listings == {l \in SeqsUpTo(Listing, MaxList) :
               \A i, j \in 1..Len(l) : l[i].name = l[j].name => i = j}
InitCreate ==
    /\ src \in {Scratch @@ [list |-> l, recursion |-> r, old |-> o, fn |-> "pbo",
                             delete_path |-> FALSE] :
                   l \in SeqsUpTo(Items, MaxList), r \in BOOLEAN, o \in {Absent, OldArchive}}
             \cup {Scratch @@ [list |-> l, recursion |-> TRUE, old |-> o,
                               fn |-> "create_pbo", delete_path |-> d] :
                     l \in Listings, d \in BOOLEAN, o \in {Absent, OldArchive}}
    /\ files \in {[InitFiles(src) EXCEPT ![3] = FileObject(d, FALSE, 258), ![4].mtime = -5] :
                    d \in PrefixFiles}
    /\ p = NewPboFile
    /\ pc = "start"
    /\ res = NoResult
    /\ views = NoViews
    /\ disk \in {[NoDisk EXCEPT !.dst = src.old, !.fs = InitFs(src, t)] :
                    t \in IF src.fn = "create_pbo" THEN BOOLEAN ELSE {FALSE}}
NextCreate == Mkstemp \/ Walk \/ WalkDir \/ ExportTmp \/ Rename \/ RenameMade \/ OpenPbo
SpecCreate == InitCreate /\ [][NextCreate]_vars

\* an archive that ends anywhere, its end and its beginning included, is
\* read and hashed
CutLayout == Layout(<<<<Prefix, PrefixP>>>>, <<Rec(NameA, MaxSize)>>, Zeros(20), TRUE)
InitCut == InitKept({Kept(CutLayout, k) : k \in 0..Len(ArchiveBytes(CutLayout))})
NextCut == FromFile \/ FileHash \/ Hash
SpecCut == InitCut /\ [][NextCut]_vars

\* a PboFile whose entries are stored in any order, read from an archive
\* (one of them without its last payload byte and trailer) or built with
\* add, is exported
RoundLayouts ==
    {Whole(Layout(e, r, Zeros(20), TRUE)) :
        e \in ExtOptions,
        r \in {<<>>, <<Rec(NameA, MaxSize)>>, <<Rec(NameA, MaxSize), Rec(NameB, 1)>>,
               <<Rec(NameB, 1), Rec(NameA, MaxSize)>>}}
      \cup {Kept(Scratch, 0)}
      \cup {Kept(d, Len(ArchiveBytes(d)) - 22) :
               d \in {Layout(<<>>, <<Rec(NameA, MaxSize)>>, Zeros(20), TRUE)}}
InitRound == InitKept(RoundLayouts)
NextRound == FromFile \/ Create \/ Add \/ AddUnnamed \/ SetPrefix \/ Export
SpecRound == InitRound /\ [][NextRound]_vars

\* the members of an archive are opened, and the statements of the read and
\* seek calls of the views fall in any order
SharedLayouts == {Whole(Layout(<<>>, <<Rec(NameA, 1), Rec(NameB, 1)>>, Zeros(20), TRUE))}
InitShared == InitKept(SharedLayouts)
NextShared == FromFile \/ OpenMember \/ ReadBegin \/ ReadMiddle \/ ReadEnd \/ SeekBegin
                \/ SeekEnd
SpecShared == InitShared /\ [][NextShared]_vars

(***************************************************************************)
(* What the format says of a layout.                                       *)
(***************************************************************************)
AscendingNames(d) ==
    \A i, j \in 1..Len(d.recs) : i < j => BytesLess(d.recs[i].name, d.recs[j].name)
DistinctKeys(d) == \A i, j \in 1..Len(d.ext) : d.ext[i][1] = d.ext[j][1] => i = j
\* a valid archive: no name or key twice, the closing record all zero, the
\* trailer the SHA-1 of what precedes it
ValidLayout(d) ==
    /\ ~ d.scratch
    /\ DistinctNames(d.recs)
    /\ DistinctKeys(d)
    /\ d.term = Zeros(20)
    /\ d.goodsum
\* where the data region of a layout begins
DataStart(d) == Len(LayoutBody(d)) - Len(LayoutData(d.recs))
RECURSIVE SizesBefore(_, _)
SizesBefore(recs, i) == IF i <= 1 THEN 0 ELSE SizesBefore(recs, i - 1) + recs[i - 1].size

\* C1: reading a valid archive whose index is in ascending byte-wise filename
\* order and exporting it writes the archive back byte for byte.
C1_RoundTrip ==
    (res.op = "export" /\ ValidLayout(src) /\ AscendingNames(src))
        => (res.st = "ok" /\ files[OutFp].data = files[ArchiveFp].data)
C1_Witness ==
    /\ res.op = "export" /\ ValidLayout(src) /\ AscendingNames(src)
    /\ Len(src.recs) = 2 /\ src.recs[1].size > 0 /\ src.recs[2].size > 0
    /\ src.ext # <<>>
    /\ files[OutFp].data = files[ArchiveFp].data

\* C3: after from_file every entry's data_offset is the start of the data
\* region plus the data_size of all index records that precede it in the
\* file, also when a filename occurs in two records.
C3_OffsetsFollowIndex ==
    (res.op = "from_file" /\ res.st = "ok")
        => \A e \in 1..Len(p.filedict) :
              \E i \in 1..Len(src.recs) :
                 /\ src.recs[i].name = p.filedict[e][2].filename
                 /\ src.recs[i].size = p.filedict[e][2].data_size
                 /\ p.filedict[e][2].data_offset = DataStart(src) + SizesBefore(src.recs, i)

\* C2: hash1 over a file export has written returns the digest export put in
\* the last 20 bytes of that file and leaves the file position where it was.
C2_Hash1IsEmbedded ==
    (res.op = "hash1" /\ res.arg = OutFp)
        => LET out == files[OutFp].data
           IN /\ res.st = "ok"
              /\ res.d = SubSeq(out, Len(out) - 19, Len(out))
              /\ files[OutFp].pos = res.pos0
C2_Witness ==
    /\ res.op = "hash1" /\ res.arg = OutFp /\ res.st = "ok"
    /\ Len(p.filedict) = 2 /\ DictHas(p.header_extension, Prefix)
    /\ res.pos0 = Len(files[OutFp].data) /\ files[OutFp].pos = res.pos0
    /\ res.d = SubSeq(files[OutFp].data, Len(files[OutFp].data) - 19, Len(files[OutFp].data))

\* the bytes a member holds: for an archived entry its slice of the backing
\* file, for an added one the whole of its file on disk
MemberBytes(q, hs, info) ==
    IF info.fp = NoFp
    THEN SubSeq(hs[q.fp].data, info.data_offset + 1, info.data_offset + info.data_size)
    ELSE hs[info.fp].data
SuffixSelected(name, version) ==
    IF version = 2 THEN ~ \E suf \in V2Suffixes : endswith(lower(name), suf)
    ELSE \E suf \in V3Suffixes : endswith(lower(name), suf)
\* what the file hash is to be fed: the payloads of the selected non-empty
\* members in stored order, or the sentinel word when there is none
FilePayloads(q, hs, version) ==
    LET sel == [i \in 1..Len(q.filedict) |->
                   IF Len(MemberBytes(q, hs, q.filedict[i][2])) > 0
                      /\ SuffixSelected(q.filedict[i][2].filename, version)
                   THEN MemberBytes(q, hs, q.filedict[i][2]) ELSE <<>>]
    IN IF \A i \in 1..Len(sel) : sel[i] = <<>>
       THEN (IF version = 2 THEN Nothing ELSE Gnihton)
       ELSE Concat(sel, Len(sel))

\* C4: for versions 2 and 3 the file hash is the SHA-1 of the payloads of the
\* selected non-empty members in stored order, or of "nothing" / "gnihton"
\* when none is selected, for archived members and for members added from
\* files on disk alike.
C4_FileHashOfPayloads ==
    (res.op = "filehash" /\ res.arg \in {2, 3})
        => (res.st = "ok" /\ res.d = sha1(FilePayloads(p, files, res.arg)))

\* the lowercased names in ascending order: the least one first
RECURSIVE Ascending(_)
Ascending(S) ==
    IF S = {} THEN <<>>
    ELSE LET m == CHOOSE x \in S : \A y \in S : BytesLess(x[1], y[1])
                                                \/ (x[1] = y[1] /\ x[2] <= y[2])
         IN <<m[1]>> \o Ascending(S \ {m})
\* the lowercased name and the place of every non-empty member
NamedMembers(q, hs) ==
    {<<lower(q.filedict[i][2].filename), i>> : i \in
        {j \in 1..Len(q.filedict) : Len(MemberBytes(q, hs, q.filedict[j][2])) > 0}}
Permuted(q, f) == [q EXCEPT !.filedict = [i \in 1..Len(q.filedict) |-> q.filedict[f[i]]]]

\* C5: the name hash is the SHA-1 of the lowercased names of the non-empty
\* members, joined in ascending order without separators; it is the same for
\* every order of the stored entries and for every header extension.
C5_NameHashOfSortedNames ==
    (res.op = "namehash")
        => /\ res.st = "ok"
           /\ res.d = sha1(Concat(Ascending(NamedMembers(p, files)),
                                  Cardinality(NamedMembers(p, files))))
           /\ \A f \in Permutations(1..Len(p.filedict)) :
                 namehash(Permuted(p, f), files).fed = namehash(p, files).fed
           /\ namehash([p EXCEPT !.header_extension = <<>>], files).fed
                 = namehash(p, files).fed
C5_Witness ==
    /\ res.op = "namehash" /\ res.st = "ok"
    /\ Len(p.filedict) = 2
    /\ p.filedict[1][1] = NameB /\ p.filedict[2][1] = NameA
    /\ Cardinality(NamedMembers(p, files)) = 2
    /\ res.d = sha1(NameA \o lower(NameB))

\* a step that sets, changes or removes the prefix extension
PrefixStep == SetPrefix \/ DelPrefix
\* what such a step does to what p.hash(version=v) returns and to the name
\* and file hashes: hash2 and hash3 change, hash1, the name hash and the file
\* hash do not.  A PboFile that was not read from a file has no file to take
\* hash1 from, and hash fails before the step and after it.
PrefixEffect ==
    /\ namehash(p', files).fed = namehash(p, files).fed
    /\ \A v \in {2, 3} :
          /\ filehash(p', files, v).fed = filehash(p, files, v).fed
          /\ LET before == hash(p, files, NoFp, v)
                 after == hash(p', files, NoFp, v)
             IN IF p.fp = NoFp THEN before.st = "error" /\ after.st = "error"
                ELSE /\ before.st = "ok" /\ after.st = "ok"
                     /\ after.hash1 = before.hash1
                     /\ after.hash2 # before.hash2
                     /\ after.hash3 # before.hash3

\* C6: setting, changing or removing the prefix extension of a PboFile
\* changes the hash2 and hash3 that PboFile.hash returns and never its hash1,
\* the name hash or the file hash.
C6_PrefixNeverChangesHash1 ==
    [][PrefixStep => PrefixEffect]_vars
\* the prefix of an archive read from a file has been changed from PrefixP to
\* PrefixQ, and hash returns the hash1 of the file with another hash2 and
\* hash3 than for the PboFile as it was read
C6_Witness ==
    /\ res.op = "set_prefix" /\ res.d = PrefixQ
    /\ src.ext = <<<<Prefix, PrefixP>>>>
    /\ DictGet(p.header_extension, Prefix) = PrefixQ
    /\ Len(p.filedict) = 2
    /\ LET h == hash(p, files, NoFp, 3)
           read == hash([p EXCEPT !.header_extension = src.ext], files, NoFp, 3)
       IN /\ h.st = "ok" /\ read.st = "ok"
          /\ h.hash1 = SubSeq(files[ArchiveFp].data, Len(files[ArchiveFp].data) - 19,
                              Len(files[ArchiveFp].data))
          /\ h.hash1 = read.hash1
          /\ h.hash2 # read.hash2 /\ h.hash3 # read.hash3

(***************************************************************************)
(* Signatures.                                                             *)
(***************************************************************************)
\* verify runs on the tampered copy of an archive that sign has signed with
\* version 3: res is what sign computed for the archive, res' what verify
\* computes for the copy
TamperedVerify ==
    /\ pc = "tampered"
    /\ pc' = "checked_tampered"
    /\ res.op = "sign"
    /\ res.arg = 3

\* C7 as stated: verify of a copy that differs in one bit of one payload byte
\* from a version 3 signed archive reports failure, the copy's hash1 differs
\* from the archive's, and the copy's hash2 equals the archive's.
C7_TamperKeepsHash2 ==
    [][TamperedVerify =>
         (res'.st = "failed" /\ res'.hash1 # res.hash1 /\ res'.hash2 = res.hash2)]_vars
\* C7 amended: verify of a copy that differs in one bit of one payload byte
\* from a version 3 signed archive reports failure with the first two checks
\* failing, the copy's hash1 differs from the archive's, and so does its hash2.
C7_TamperChangesHash2 ==
    [][TamperedVerify =>
         /\ res'.st = "failed"
         /\ res'.checks[1] = FALSE
         /\ res'.checks[2] = FALSE
         /\ res'.hash1 # res.hash1
         /\ res'.hash2 # res.hash2]_vars
C7_Witness ==
    /\ pc = "checked_tampered"
    /\ src.key = BigKey
    /\ res.op = "verify"
    /\ res.arg = 3
    /\ res.st = "failed"
    /\ res.checks = <<FALSE, FALSE, TRUE>>

\* a < b for longs
LongLess(a, b) == Len(a) < Len(b) \/ (Len(a) = Len(b) /\ BytesLess(a, b))
\* C8: for every key pair, the three signatures sign writes lie in 0..n-1 and
\* pass the check of verify, so that verify of an untouched archive against
\* its fresh signature ends in "verified"; and verify ends in "verified" when
\* all three checks hold and in "failed" when one of them does not.
C8_FreshSignatureVerifies ==
    /\ pc = "signed" =>
          \A s \in {Bisign_from_file(Open(files[SigFp])).sig1,
                    Bisign_from_file(Open(files[SigFp])).sig2,
                    Bisign_from_file(Open(files[SigFp])).sig3} :
             LongLess(s, src.key.public_key.modulus)
    /\ pc = "checked" => (res.st = "verified" /\ res.checks = <<TRUE, TRUE, TRUE>>)
    /\ (res.op = "verify" /\ res.st \in {"verified", "failed"}) =>
          (res.st = "verified" <=> res.checks = <<TRUE, TRUE, TRUE>>)

\* C9: padding(h, k) of a 20-byte digest h with k < 64 ends in an error and
\* returns no integer.
C9_SmallModulusRejected ==
    (res.op = "padding" /\ res.arg < 64) => res.st = "error"

\* C10: PboFile.hash with a version other than 2 or 3 ends in an error and
\* returns no digests, whether or not the archive has entries, and verify
\* against a signature file whose version field is neither 2 nor 3 ends in
\* that error, neither "verified" nor "failed".
C10_UnknownVersionIsAnError ==
    /\ (res.op = "hash" /\ res.arg \notin {2, 3}) =>
          /\ res.st = "error"
          /\ res.hash1 = NoDigest /\ res.hash2 = NoDigest /\ res.hash3 = NoDigest
    /\ (res.op = "verify" /\ res.arg \notin {2, 3}) =>
          /\ pc = "checked_edited"
          /\ res.st = "error"
          /\ res.hash1 = NoDigest /\ res.hash2 = NoDigest /\ res.hash3 = NoDigest
C10_Witness ==
    /\ pc = "checked_edited"
    /\ res.op = "verify"
    /\ res.arg = 4
    /\ res.st = "error"
    /\ Len(src.recs) > 0

(***************************************************************************)
(* Members.                                                                *)
(***************************************************************************)
\* no two entries of q have the same normalized filename
UniqueNormalized(q) ==
    \A i, j \in 1..Len(q.filedict) :
       NormalizeName(q.filedict[i][1]) = NormalizeName(q.filedict[j][1]) => i = j

\* C11: an add whose normalized name is the normalized name of an entry ends
\* in an error and leaves filedict as it was, and after every add and every
\* delete no two entries have the same normalized filename.
C11_NormalizedNamesUnique ==
    [][res'.op \in {"add", "delete"} =>
         /\ (res'.op = "add"
               /\ \E i \in 1..Len(p.filedict) :
                     NormalizeName(p.filedict[i][1]) = NormalizeName(res'.d))
              => (res'.st = "error" /\ p'.filedict = p.filedict)
         /\ UniqueNormalized(p')]_vars

(***************************************************************************)
(* Member views.                                                           *)
(***************************************************************************)
\* C12: read(n) on a member view returns the bytes of the backing file from
\* data_offset + tell() up to data_offset + tell() + n or the end of the
\* member, whichever comes first (up to the end of the member for n = -1),
\* none of them outside the member, and moves tell() on by the number of
\* bytes returned; at or past the end of the member it returns nothing.
C12_ReadReturnsSlice ==
    [][res'.op = "read" =>
         LET v == views[res'.view].view
             t == PboExtFile_tell(v)
             lo == v.data_offset + t
             end == v.data_offset + v.data_size
             hi == IF res'.arg = -1 THEN end ELSE Min(lo + res'.arg, end)
             data == files[p.fp].data
         IN /\ res'.d = SubSeq(data, lo + 1, Min(hi, Len(data)))
            /\ lo >= v.data_offset
            /\ lo + Len(res'.d) <= Max(lo, end)
            /\ PboExtFile_tell(views'[res'.view].view) = t + Len(res'.d)
            /\ t >= v.data_size => res'.d = <<>>]_vars
\* a read that the end of the member cuts short, after a seek
C12_Witness ==
    /\ res.op = "read"
    /\ res.arg = MaxSize
    /\ Len(res.d) = 1
    /\ src.keep = Len(ArchiveBytes(src))
    /\ views[res.view].view.pos = views[res.view].view.data_offset + MaxSize

\* C13: a successful seek(o, 0) leaves tell() = o; a seek whose whence is not
\* 0, 1 or 2, or whose target lies before the start of the member, ends in an
\* error and leaves the view and the handle as they were; tell() is never
\* negative.
C13_SeekIsLocal ==
    [][res'.op = "seek" =>
         LET v == views[res'.view].view
             after == views'[res'.view].view
         IN /\ (res'.st = "ok" /\ res'.whence = 0) => PboExtFile_tell(after) = res'.arg
            /\ (res'.whence \notin {0, 1, 2}
                  \/ SeekTarget(v, res'.arg, res'.whence) < v.data_offset)
                 => (res'.st = "error" /\ views' = views /\ files' = files)
            /\ \A j \in 1..Len(views') : PboExtFile_tell(views'[j].view) >= 0]_vars
\* a seek from the end of the member to a place before its start
C13_Witness ==
    /\ res.op = "seek"
    /\ res.st = "error"
    /\ res.whence = 2
    /\ res.arg < 0
    /\ PboExtFile_tell(views[res.view].view) > 0

(***************************************************************************)
(* Handles.                                                                *)
(***************************************************************************)
\* C14: once a PboFile is closed, its backing handle and the handle of every
\* member that add was given are closed, whatever add, export and hash calls
\* came before; and when from_file fails, the handle it opened is closed.
C14_CloseReleasesEveryHandle ==
    /\ pc = "closed" =>
          /\ p.fp # NoFp => files[p.fp].closed
          /\ \A i \in 1..Len(p.filedict) :
                p.filedict[i][2].fp # NoFp => files[p.filedict[i][2].fp].closed
    /\ (pc = "failed" /\ res.op = "from_file") => files[ArchiveFp].closed

(***************************************************************************)
(* Archive creation.                                                       *)
(***************************************************************************)
\* data is an archive written to its end: it closes with NUL and the SHA-1
\* of what goes before
Complete(data) ==
    /\ Len(data) >= 21
    /\ SubSeq(data, Len(data) - 20, Len(data))
         = <<NUL>> \o sha1(SubSeq(data, 1, Len(data) - 21))

\* C15: when the creation of an archive fails before the rename, the
\* temporary file is gone and the archive path holds what it held; the
\* archive path only ever changes to an archive written to its end, or
\* names nothing once open_pbo has removed the archive.
C15_FailureRemovesTmp ==
    /\ pc = "failed" => (disk.tmp = Absent /\ disk.dst = src.old)
    /\ disk.dst \notin {src.old, Absent} => (pc = "renamed" /\ Complete(disk.dst))

(***************************************************************************)
(* Archives that end early.                                                *)
(***************************************************************************)
\* C16: from_file returns or fails on every input, and fails when the
\* archive ends before its index does; _filehash and hash of an archive
\* whose data region is shorter than its index says end in an error and do
\* not read forever.
C16_TruncationFailsFast ==
    /\ res.op = "from_file" =>
          /\ res.st \in {"ok", "error"}
          /\ src.keep < DataStart(src) - 20 => res.st = "error"
    /\ (res.op \in {"filehash", "hash"}
          /\ src.keep < DataStart(src) + Len(LayoutData(src.recs)))
         => res.st = "error"

(***************************************************************************)
(* Export and read back.                                                   *)
(***************************************************************************)
\* the bytes a member has for a reader: for an archived entry what the
\* backing file holds of its slice, for an added one its file on disk
Readable(q, hs, info) ==
    IF info.fp = NoFp
    THEN SubSeq(hs[q.fp].data, info.data_offset + 1,
                Min(info.data_offset + info.data_size, Len(hs[q.fp].data)))
    ELSE hs[info.fp].data
\* back is what from_file makes of the bytes out that export wrote for q
ReadsBack(q, hs, out, back) ==
    /\ back.st = "ok"
    /\ \A i, j \in 1..Len(back.filedict) :
          i < j => BytesLess(back.filedict[i][1], back.filedict[j][1])
    /\ {back.filedict[i][1] : i \in 1..Len(back.filedict)}
         = {q.filedict[i][1] : i \in 1..Len(q.filedict)}
    /\ \A i \in 1..Len(q.filedict) :
          \A j \in 1..Len(back.filedict) :
             back.filedict[j][1] = q.filedict[i][1] =>
                /\ back.filedict[j][2].data_size = get_data_size(q.filedict[i][2], hs).v
                /\ SubSeq(out, back.filedict[j][2].data_offset + 1,
                          Min(back.filedict[j][2].data_offset
                                + back.filedict[j][2].data_size, Len(out)))
                     = Readable(q, hs, q.filedict[i][2])

\* C17: whatever the stored order of the entries of a PboFile, the bytes that
\* export writes read back with from_file as an index in ascending byte-wise
\* filename order that holds the same filenames, each with the data_size and
\* the payload bytes it had before the export.
C17_ExportReadsBack ==
    [][(res'.op = "export" /\ res'.st = "ok") =>
          ReadsBack(p, files, files'[OutFp].data, from_file(Open(files'[OutFp])))]_vars

(***************************************************************************)
(* Views that share a handle.                                              *)
(***************************************************************************)
\* a read of a view returns, among views of different entries
ReadReturns ==
    /\ res'.op = "read"
    /\ views[res'.view].at = "read"
    /\ views'[res'.view].at = "idle"
\* the read that returns gives the bytes of its own member at the position
\* the view's own calls have taken it to
ReadIsRight ==
    LET v == views[res'.view]
    IN res'.d = Slice(v.view, files[p.fp].data, v.want, v.n)

\* C18 as stated: a read of a view that shares its handle with a view of
\* another entry returns its own bytes at its own position unless, before
\* it, a call of one view has called seek or read of the handle between the
\* seek and the read of the handle in a read call of another view.
C18_WrongOnlyBetweenSeekAndRead ==
    [][(ReadReturns /\ ~ ReadIsRight) => \E j \in 1..Len(views') : views'[j].cut]_vars
\* C18 amended: such a read returns its own bytes at its own position unless,
\* before it, a call of one view, read or seek, has called seek or read of
\* the handle at any point between the first statement and the return of a
\* read or seek call of another view; calls that fall one after the other
\* never do.
C18_WrongOnlyWhenCallsOverlap ==
    [][(ReadReturns /\ ~ ReadIsRight) => \E j \in 1..Len(views') : views'[j].torn]_vars
\* a read has returned bytes that are not its own after a call of its view
\* and a call of the other view have overlapped, and no read has been cut
\* between its seek of the handle and its read of it
C18_Witness ==
    /\ res.op = "read"
    /\ Len(views) = 2
    /\ views[1].name # views[2].name
    /\ \A j \in 1..2 : views[j].at = "idle" /\ ~ views[j].cut
    /\ views[res.view].torn
    /\ res.d # Slice(views[res.view].view, files[p.fp].data, res.pos0, res.arg)

====
